---- MODULE Spec2Model ----
(***************************************************************************)
(* Model of the anime-scrapper crawl pipeline:                             *)
(*   - Scraper (src/src/scraper/mod.rs): fetch_page with pacing delay,     *)
(*     retry loop and exponential backoff, do_fetch response               *)
(*     classification, reset_counter;                                      *)
(*   - run_crawler (src/src/routes/mod.rs): the bulk traversal             *)
(*     catalog page -> anime detail -> episode, with its counters and      *)
(*     error list.                                                         *)
(*   - the cache layer and the repositories of crawled_anime,              *)
(*     anime_details with episodes, and video_sources                      *)
(*     (src/src/db/repository.rs);                                         *)
(*   - get_anime_by_slug (src/src/routes/mod.rs): the single-key path      *)
(*     cache check -> store read -> scrape -> save -> cache update.        *)
(*   - the User-Agent and Sec-Ch-Ua headers of do_fetch                    *)
(*     (src/src/scraper/mod.rs) and reset_password                         *)
(*     (src/src/routes/auth.rs).                                           *)
(* The specifications share the variables, and each leaves the parts it    *)
(* does not drive in their initial state: SpecFetch drives one Scraper,    *)
(* SpecCrawl (and FairSpecCrawl) one run of run_crawler, in which each     *)
(* fetch_page call is taken by its result, SpecCache the cache layer with  *)
(* concurrent callers, SpecCatalog the writes to crawled_anime, SpecDetail *)
(* one reader and the writers of anime_details and episodes, SpecSources   *)
(* the writes to video_sources, SpecSourcesRead these writes with a        *)
(* reader, SpecLookup the calls of get_anime_by_slug one after the other,  *)
(* SpecConcurrent two such calls interleaved, SpecHeaders the headers of   *)
(* the requests, SpecReset the reset_password requests for one token.      *)
(***************************************************************************)
EXTENDS Integers, Sequences, FiniteSets, TLC

\* ------------------------------------------------------------------------
\* Bounds of the model (not program constants)
\* ------------------------------------------------------------------------
\* largest max_retries a ScraperConfig of the model carries
MaxRetries == 3
\* largest value the request counter reaches before fetch_page is no longer started
MaxRequests == 2
\* number of catalog pages that can carry items when the transport answers freely
CatalogPages == 3
\* most items on one catalog page, episodes of one detail, sources of one episode
MaxItems == 2
MaxEpisodes == 2
MaxSources == 1
\* most items and episodes, taken together, that the site serves in one run when the
\* transport answers freely
MaxUnits == 5
\* most failures (of a fetch or of a store write) in a run where they happen freely
MaxFaults == 1
\* most items on one catalog page when the transport answers every fetch of one kind
\* alike
UniformItems == 1

\* ------------------------------------------------------------------------
\* Scraper: configuration, errors, results
\* ------------------------------------------------------------------------
\* upper end (exclusive) of the backoff jitter range gen_range(0..500)
JitterRange == 500

\* ScraperConfig::default() with max_retries left open
DefaultConfig(r) ==
  [min_delay_ms |-> 1000, max_delay_ms |-> 3000, max_retries |-> r, backoff_base_ms |-> 1000]

\* the custom configuration of test_scraper_with_config with max_retries left open
CustomConfig(r) ==
  [min_delay_ms |-> 500, max_delay_ms |-> 1500, max_retries |-> r, backoff_base_ms |-> 2000]

\* the configurations a Scraper of the model is constructed with
Configs == {DefaultConfig(r) : r \in 0..MaxRetries} \cup {CustomConfig(r) : r \in 0..MaxRetries}

\* ScraperError values; code is meaningful for HttpError only, msg for NetworkError only
NetworkError(m) == [type |-> "NetworkError", code |-> 0, msg |-> m]
HttpError(c) == [type |-> "HttpError", code |-> c, msg |-> ""]
ResponseError == [type |-> "ResponseError", code |-> 0, msg |-> ""]
RateLimited == [type |-> "RateLimited", code |-> 0, msg |-> ""]
\* Option::None of last_error, and the err field of an Ok result
NoError == [type |-> "None", code |-> 0, msg |-> ""]

\* Result<ScraperResult, ScraperError>
Ok(status) == [ok |-> TRUE, status |-> status, err |-> NoError]
Err(e) == [ok |-> FALSE, status |-> 0, err |-> e]
\* no fetch has returned yet
NoResult == [ok |-> FALSE, status |-> 0, err |-> [type |-> "Pending", code |-> 0, msg |-> ""]]

\* HTTP statuses the transport of the model answers with
Statuses == {200, 204, 404, 429, 500, 503}

\* what request.send() and response.text() can produce for one attempt:
\* a transport failure, or a response with a status whose body can or cannot be read
TransportFailures == {"timeout", "connect", "other"}
Responses ==
  {[sent |-> FALSE, reason |-> f, status |-> 0, body_ok |-> FALSE] : f \in TransportFailures}
  \cup {[sent |-> TRUE, reason |-> "", status |-> s, body_ok |-> b] : s \in Statuses, b \in BOOLEAN}

\* the map_err closure of request.send()
SendError(reason) ==
  IF reason = "timeout" THEN NetworkError("Connection timeout")
  ELSE IF reason = "connect" THEN NetworkError("Failed to connect to server")
  ELSE NetworkError("transport error")

\* Scraper::do_fetch: one attempt, classified
do_fetch_429_as_status(resp) ==
  IF ~resp.sent THEN Err(SendError(resp.reason))
  ELSE IF resp.status # 200 THEN Err(HttpError(resp.status))
  ELSE IF ~resp.body_ok THEN Err(ResponseError)
  ELSE Ok(resp.status)

do_fetch(resp) ==
  IF ~resp.sent THEN Err(SendError(resp.reason))
  ELSE IF resp.status = 429 THEN Err(RateLimited)
  ELSE IF resp.status # 200 THEN Err(HttpError(resp.status))
  ELSE IF ~resp.body_ok THEN Err(ResponseError)
  ELSE Ok(resp.status)

\* the match arms of fetch_page that continue the retry loop
Retryable_only_rate_limited(e) ==
  e.type = "RateLimited"

Retryable_all_http(e) ==
  e.type = "RateLimited" \/ e.type = "HttpError"

Retryable(e) ==
  \/ e.type = "RateLimited"
  \/ (e.type = "HttpError" /\ (e.code = 429 \/ e.code >= 500))

\* the value fetch_page returns when the retry loop runs out
LoopResult_always_network(last) ==
  Err(NetworkError("Max retries exceeded"))

LoopResult(last) ==
  IF last = NoError THEN Err(NetworkError("Max retries exceeded")) ELSE Err(last)

\* the loop body runs once even for an empty range
LoopEmpty_never(max_retries) ==
  FALSE

\* `for attempt in 0..self.config.max_retries` has no iteration
LoopEmpty(max_retries) ==
  max_retries = 0

\* the test `count > 0` of fetch_page that decides on the pacing delay
NeedsDelay_after_second(count) ==
  count > 1

NeedsDelay(count) ==
  count > 0

\* the delay grows by one backoff_base_ms per attempt
apply_backoff_linear(cfg, attempt) ==
  {cfg.backoff_base_ms * (attempt + 1) + jitter : jitter \in {0, JitterRange - 1}}

\* Scraper::apply_backoff: the delays it can sleep before attempt number attempt (0-based)
apply_backoff(cfg, attempt) ==
  {cfg.backoff_base_ms * (2^attempt) + jitter : jitter \in {0, JitterRange - 1}}

\* Scraper::apply_delay: the delays it can sleep (the ends of the window)
apply_delay(cfg) ==
  {cfg.min_delay_ms, cfg.max_delay_ms}

\* ------------------------------------------------------------------------
\* State
\* ------------------------------------------------------------------------
VARIABLES
  \* Scraper
  config,            \* Scraper.config
  request_count,     \* Scraper.request_count
  fpc,               \* position of the fetch_page call: "idle", "loop", "returned"
  attempt,           \* loop variable of fetch_page
  last_error,        \* last_error of fetch_page
  result,            \* what the last fetch_page call returned
  transport_log,     \* the transport's answers to the attempts of the current fetch_page call
  attempt_result,    \* what do_fetch returned for the last attempt
  sleeps,            \* the sleeps of the current fetch_page call, in order
  first_since,       \* no fetch_page call was made since construction or the last reset_counter
  op,                \* the Scraper operation that took the last step
  \* run_crawler
  world,             \* how the transport and the store answer during the run
  cpc,               \* position of run_crawler: "off", "page", "item", "episode", "done"
  page,              \* page cursor
  pages_processed, total_crawled, total_episodes, total_video_sources,
  errors,            \* the error list
  anime_list,        \* number of items of the catalog page in work
  item,              \* index of the item in work
  episodes,          \* number of episodes of the detail in work
  episode,           \* index of the episode in work
  end_reason,        \* which break ended the loop: "none", "empty", "limit"
  \* what the environment of run_crawler has done so far
  pages_fetched,     \* number of catalog-page fetches the run has made
  page_failed,       \* some catalog-page fetch of the run has failed
  items_seen,        \* number of items on the catalog pages fetched so far
  episodes_seen,     \* number of episodes on the detail pages fetched so far
  faults,            \* number of failed fetches and failed store writes so far
  last_fault,        \* the last failed fetch or store write: <<kind, page, item, episode>>
  cop,               \* the last step of run_crawler and its outcome
  written            \* what the store writes of the run have written for the page, the
                     \* item and the episodes last worked on: the items of the page with
                     \* a catalog record, whether the item has a detail record, the
                     \* episodes of the item with video sources

fvars == <<config, request_count, fpc, attempt, last_error, result, transport_log,
           attempt_result, sleeps,
           first_since, op>>
cvars == <<world, cpc, page, pages_processed, total_crawled, total_episodes,
           total_video_sources, errors, anime_list, item, episodes, episode,
           end_reason, pages_fetched, page_failed, items_seen, episodes_seen, faults,
           last_fault, cop, written>>

VARIABLES
  \* the clock and the cache_metadata table
  now,               \* the time in milliseconds, read by Utc::now() and CURRENT_TIMESTAMP
  ticks,             \* number of steps the clock has made
  cache_metadata,    \* the rows of table cache_metadata: [cache_key, last_fetched]
  pending,           \* the update_cache_timestamp statements that have started: [cache_key, ts]
  cache_call,        \* the last cache operation and what it returned
  refreshed_at       \* per key: CURRENT_TIMESTAMP of the last applied update_cache_timestamp,
                     \* Never when the key was never refreshed or its entry was deleted

VARIABLES
  \* table crawled_anime
  crawled_anime,     \* the committed rows of table crawled_anime: [slug, v]
  batch_tx,          \* the transaction of save_crawled_anime_batch
  catalog_call,      \* the last operation on crawled_anime and what it returned
  last_upsert        \* per slug: the field values of the last applied upsert, 0 when none

VARIABLES
  \* tables anime_details and episodes
  anime_details,     \* the committed rows of table anime_details: [slug, title]
  episodes_table,    \* the committed rows of table episodes in id order: [anime_slug, url, v]
  detail_read,       \* the get_anime_detail call in progress, then what it returned
  views,             \* the details the store has held for the slug of detail_read since
                     \* the call started
  detail_call        \* the last write to anime_details and episodes and what it returned

VARIABLES
  \* table video_sources
  video_sources,     \* the rows of table video_sources in id order: [episode_url, v]
  source_call,       \* the save_video_sources call in progress, then what it returned
  sources_read,      \* what the last get_video_sources call since the start of source_call
                     \* returned
  sources_before     \* the sources of the episode of source_call when the call started

VARIABLES
  \* get_anime_by_slug
  lookup             \* the get_anime_by_slug call in progress, then what it returned

VARIABLES
  \* two get_anime_by_slug calls at a time
  suspended,         \* the get_anime_by_slug call that waits at an await while the call
                     \* of lookup runs
  last_saved         \* the detail of the last save_anime_detail_with_episodes of a call
                     \* that returned Ok, NoDetail when there is none

VARIABLES
  \* reset_password
  verification_token, \* the row of table verification_tokens of the token of the requests
  password_hash,      \* users.password_hash of the user of the token
  resets              \* per client: its reset_password request, then its response

VARIABLES
  \* the requests do_fetch builds
  rotate_user_agent, \* ScraperConfig::rotate_user_agent of the Scraper
  request,           \* the request do_fetch is building
  requests_sent      \* the user agent and the Sec-Ch-Ua headers of the requests sent

kvars == <<now, ticks, cache_metadata, pending, cache_call, refreshed_at>>
svars == <<crawled_anime, batch_tx, catalog_call, last_upsert>>
pvars == <<anime_details, episodes_table, detail_read, views, detail_call>>
lvars == <<video_sources, source_call>>
rvars == <<sources_read, sources_before>>
hvars == <<lookup>>
wvars == <<suspended, last_saved>>
uvars == <<rotate_user_agent, request, requests_sent>>
\* the state of the operations modelled one by one
tvars == <<verification_token, password_hash, resets>>
ovars == <<uvars, tvars>>
dvars == <<kvars, svars, pvars, lvars, rvars, hvars, wvars, ovars>>
vars == <<fvars, cvars, dvars>>
\* everything but the cache layer, but table crawled_anime, but the detail tables,
\* but table video_sources
but_kvars == <<fvars, cvars, svars, pvars, lvars, hvars, rvars, ovars, wvars>>
but_svars == <<fvars, cvars, kvars, pvars, lvars, hvars, rvars, ovars, wvars>>
but_pvars == <<fvars, cvars, kvars, svars, lvars, hvars, rvars, ovars, wvars>>
but_lvars == <<fvars, cvars, kvars, svars, pvars, hvars, ovars, wvars>>
\* everything but the cache layer, the detail tables and the callers of get_anime_by_slug
but_hvars == <<fvars, cvars, svars, lvars, rvars, ovars>>

\* ------------------------------------------------------------------------
\* Scraper operations
\* ------------------------------------------------------------------------
\* Scraper::with_config: the state after construction
InitScraper ==
  /\ config \in Configs
  /\ request_count = 0
  /\ fpc = "idle"
  /\ attempt = 0
  /\ last_error = NoError
  /\ result = NoResult
  /\ transport_log = <<>>
  /\ attempt_result = NoResult
  /\ sleeps = <<>>
  /\ first_since = TRUE
  /\ op = "with_config"

\* fetch_page up to the first attempt: counter, pacing delay, loop entry
FetchStart ==
  /\ fpc \in {"idle", "returned"}
  /\ request_count < MaxRequests
  /\ LET count == request_count IN
       /\ request_count' = count + 1
       /\ IF NeedsDelay(count)
            THEN \E d \in apply_delay(config) : sleeps' = << <<"delay", d>> >>
            ELSE sleeps' = <<>>
  /\ last_error' = NoError
  /\ attempt' = 0
  /\ transport_log' = <<>>
  /\ attempt_result' = NoResult
  /\ IF LoopEmpty(config.max_retries)
       THEN /\ fpc' = "returned"
            /\ result' = LoopResult(NoError)
       ELSE /\ fpc' = "loop"
            /\ result' = NoResult
  /\ first_since' = FALSE
  /\ op' = "fetch_page"
  /\ UNCHANGED <<config, cvars, dvars>>

\* one iteration of the retry loop of fetch_page: backoff, do_fetch, match
FetchAttempt ==
  /\ fpc = "loop"
  /\ attempt < config.max_retries
  /\ IF attempt > 0
       THEN \E b \in apply_backoff(config, attempt) : sleeps' = Append(sleeps, <<"backoff", b>>)
       ELSE sleeps' = sleeps
  /\ \E resp \in Responses :
       LET r == do_fetch(resp) IN
       /\ transport_log' = Append(transport_log, resp)
       /\ attempt_result' = r
       /\ IF r.ok
            THEN /\ result' = r
                 /\ fpc' = "returned"
                 /\ UNCHANGED <<attempt, last_error>>
            ELSE IF Retryable(r.err)
            THEN /\ last_error' = r.err
                 /\ attempt' = attempt + 1
                 /\ IF attempt + 1 < config.max_retries
                      THEN /\ fpc' = "loop"
                           /\ result' = result
                      ELSE /\ fpc' = "returned"
                           /\ result' = LoopResult(r.err)
            ELSE /\ result' = r
                 /\ fpc' = "returned"
                 /\ UNCHANGED <<attempt, last_error>>
  /\ op' = "do_fetch"
  /\ UNCHANGED <<config, request_count, first_since, cvars, dvars>>

\* Scraper::reset_counter
ResetCounter ==
  /\ request_count' = 0
  /\ first_since' = TRUE
  /\ op' = "reset_counter"
  /\ UNCHANGED <<config, fpc, attempt, last_error, result, transport_log, attempt_result,
                 sleeps, cvars, dvars>>

\* ------------------------------------------------------------------------
\* run_crawler
\* ------------------------------------------------------------------------
\* the page limit of run_crawler
PageLimit == 1000

\* How the transport and the store answer during one run.  In a "free" world every
\* fetch and every store write picks its outcome when it happens: at most MaxFaults of
\* them fail, the site serves at most MaxUnits items and episodes, and catalog pages
\* past CatalogPages carry no items.  In a "uniform" world every catalog page, every
\* batch save, every detail page (without episodes) and every detail save has the
\* same outcome through the whole run, which takes the run up to the page limit.
World(mode, po, n, bo, do, t, dso) ==
  [mode |-> mode, page_ok |-> po, items |-> n, batch_ok |-> bo,
   detail_ok |-> do, titled |-> t, detail_save_ok |-> dso]

NoWorld == World("off", TRUE, 0, TRUE, TRUE, TRUE, TRUE)
FreeWorld == World("free", TRUE, 0, TRUE, TRUE, TRUE, TRUE)

\* the uniform worlds; a parameter that no step of the run reads stays at its default
UniformWorlds ==
  {World("uniform", FALSE, 0, TRUE, TRUE, TRUE, TRUE)}
  \cup {World("uniform", TRUE, n, b, FALSE, TRUE, TRUE) :
          n \in 1..UniformItems, b \in BOOLEAN}
  \cup {World("uniform", TRUE, n, b, TRUE, FALSE, TRUE) :
          n \in 1..UniformItems, b \in BOOLEAN}
  \cup {World("uniform", TRUE, n, b, TRUE, TRUE, ds) :
          n \in 1..UniformItems, b \in BOOLEAN, ds \in BOOLEAN}

\* the smaller of two numbers
Min(a, b) == IF a < b THEN a ELSE b

\* number of items and episodes the site can still serve
UnitsLeft == MaxUnits - (items_seen + episodes_seen)

\* one more fetch or store write may fail
CanFail == world.mode = "free" /\ faults < MaxFaults
Failing == IF CanFail THEN {FALSE} ELSE {}

\* scraper.fetch_page of a catalog page followed by parse_anime_list: the fetch
\* fails, or the page parses to a number of items
PageFetches ==
  IF world.mode = "free"
  THEN {[ok |-> o, items |-> 0] : o \in Failing}
       \cup {[ok |-> TRUE, items |-> n] :
               n \in IF page <= CatalogPages THEN 0..Min(MaxItems, UnitsLeft) ELSE {0}}
  ELSE {[ok |-> world.page_ok, items |-> world.items]}

\* scraper.fetch_page of a detail page followed by parse_anime_detail: the fetch
\* fails, or the detail has an empty title, or it has a title and episodes
DetailFetches ==
  IF world.mode = "free"
  THEN {[ok |-> o, titled |-> FALSE, eps |-> 0] : o \in Failing}
       \cup {[ok |-> TRUE, titled |-> FALSE, eps |-> e] : e \in 0..Min(MaxEpisodes, UnitsLeft)}
       \cup {[ok |-> TRUE, titled |-> TRUE, eps |-> e] : e \in 0..Min(MaxEpisodes, UnitsLeft)}
  ELSE {[ok |-> world.detail_ok, titled |-> world.titled, eps |-> 0]}

\* scraper.fetch_page of an episode page followed by parse_episode_detail
EpisodeFetches ==
  IF world.mode = "free"
  THEN {[ok |-> o, sources |-> 0] : o \in Failing}
       \cup {[ok |-> TRUE, sources |-> k] : k \in 0..MaxSources}
  ELSE {}

\* the outcomes of a store write (save_crawled_anime_batch,
\* save_anime_detail_with_episodes, save_video_sources): Ok or Err
StoreWrites(uniform_ok) ==
  IF world.mode = "free" THEN {TRUE} \cup Failing ELSE {uniform_ok}

\* the error strings of run_crawler, by what they name
PageFetchError(errs, p) ==
  Append(errs, <<"fetch_page", p, 0, 0>>)

BatchSaveError(errs, p) ==
  Append(errs, <<"save_batch", p, 0, 0>>)

DetailFetchError_dropped(errs, p, i) ==
  errs

DetailFetchError(errs, p, i) ==
  Append(errs, <<"fetch_detail", p, i, 0>>)

EmptyDetailError_reported(errs, p, i) ==
  Append(errs, <<"empty_detail", p, i, 0>>)

\* a detail with an empty title is logged with warn! and pushes no error
EmptyDetailError(errs, p, i) ==
  errs

DetailSaveError(errs, p, i) ==
  Append(errs, <<"save_detail", p, i, 0>>)

EpisodeFetchError(errs, p, i, j) ==
  Append(errs, <<"fetch_episode", p, i, j>>)

SourcesSaveError(errs, p, i, j) ==
  Append(errs, <<"save_sources", p, i, j>>)

\* nothing written for the page and the item
NoneWritten == [catalog |-> {}, detail |-> FALSE, sources |-> {}]

\* save_crawled_anime_batch of the n items of a page: all rows are committed, or the
\* transaction is dropped and no row is written
BatchStored_partial(n, saved) ==
  IF saved THEN 1..n ELSE {1}

BatchStored(n, saved) ==
  IF saved THEN 1..n ELSE {}

\* save_video_sources of the k sources of episode j: all rows are inserted, or an
\* insert has failed after none or some of them
SourcesStored(rows, j, k, saved) ==
  IF saved THEN {rows \cup {j}}
  ELSE {rows} \cup (IF k > 1 THEN {rows \cup {j}} ELSE {})

\* the episode loop is skipped when the detail was not saved
EpisodesToFetch_saved_only(eps, saved) ==
  IF saved THEN eps ELSE 0

\* the number of episodes the episode loop goes through: `for episode in
\* &detail.episodes` follows the save whatever it returned
EpisodesToFetch(eps, saved) ==
  eps

\* the test `page > 1000` after `page += 1`
PastLimit_early(p) ==
  p >= PageLimit

PastLimit_late(p) ==
  p > PageLimit + 1

PastLimit(p) ==
  p > PageLimit

\* pages_processed after a successful catalog fetch that parsed to n items:
\* the break on an empty list comes before `pages_processed += 1`
ProcessedAfterFetch_counts_empty(processed, n) ==
  processed + 1

ProcessedAfterFetch(processed, n) ==
  IF n = 0 THEN processed ELSE processed + 1

\* total_crawled after save_crawled_anime_batch of n items
CrawledAfterBatch_per_detail(crawled, n, saved) ==
  crawled

CrawledAfterBatch(crawled, n, saved) ==
  IF saved THEN crawled + n ELSE crawled

\* where the run stands after `page += 1` at the end of page p
AfterPage(p) ==
  IF PastLimit(p + 1)
  THEN [cpc |-> "done", page |-> p + 1, anime_list |-> 0, item |-> 0, end |-> "limit"]
  ELSE [cpc |-> "page", page |-> p + 1, anime_list |-> 0, item |-> 0, end |-> "none"]

\* where the run stands after item i of the n items of page p
AfterItem(p, i, n) ==
  IF i < n
  THEN [cpc |-> "item", page |-> p, anime_list |-> n, item |-> i + 1, end |-> "none"]
  ELSE AfterPage(p)

\* the state at the start of run_crawler
StartCrawler(w) ==
  /\ world = w
  /\ cpc = "page"
  /\ page = 1
  /\ pages_processed = 0
  /\ total_crawled = 0
  /\ total_episodes = 0
  /\ total_video_sources = 0
  /\ errors = <<>>
  /\ anime_list = 0
  /\ item = 0
  /\ episodes = 0
  /\ episode = 0
  /\ end_reason = "none"
  /\ pages_fetched = 0
  /\ page_failed = FALSE
  /\ items_seen = 0
  /\ episodes_seen = 0
  /\ faults = 0
  /\ last_fault = <<"none", 0, 0, 0>>
  /\ cop = [step |-> "start", outcome |-> "none"]
  /\ written = NoneWritten

\* the loop body of run_crawler up to the item loop: fetch catalog page, parse,
\* save the batch
CrawlPage ==
  /\ cpc = "page"
  /\ pages_fetched' = pages_fetched + 1
  /\ \E f \in PageFetches :
       IF ~f.ok
       THEN /\ errors' = PageFetchError(errors, page)
            /\ cpc' = AfterPage(page).cpc
            /\ page' = AfterPage(page).page
            /\ end_reason' = AfterPage(page).end
            /\ page_failed' = TRUE
            /\ faults' = faults + 1
            /\ last_fault' = <<"fetch_page", page, 0, 0>>
            /\ cop' = [step |-> "page", outcome |-> "fetch_failed"]
            /\ written' = NoneWritten
            /\ UNCHANGED <<pages_processed, total_crawled, anime_list, item, items_seen>>
       ELSE IF f.items = 0
       THEN /\ cpc' = "done"
            /\ end_reason' = "empty"
            /\ pages_processed' = ProcessedAfterFetch(pages_processed, 0)
            /\ cop' = [step |-> "page", outcome |-> "empty"]
            /\ written' = NoneWritten
            /\ UNCHANGED <<errors, page, page_failed, faults, last_fault, total_crawled,
                           anime_list, item, items_seen>>
       ELSE \E saved \in StoreWrites(world.batch_ok) :
            /\ pages_processed' = ProcessedAfterFetch(pages_processed, f.items)
            /\ total_crawled' = CrawledAfterBatch(total_crawled, f.items, saved)
            /\ written' = [NoneWritten EXCEPT !.catalog = BatchStored(f.items, saved)]
            /\ errors' = IF saved THEN errors ELSE BatchSaveError(errors, page)
            /\ faults' = IF saved THEN faults ELSE faults + 1
            /\ last_fault' = IF saved THEN last_fault ELSE <<"save_batch", page, 0, 0>>
            /\ items_seen' = items_seen + f.items
            /\ anime_list' = f.items
            /\ item' = 1
            /\ cpc' = "item"
            /\ cop' = [step |-> "page", outcome |-> IF saved THEN "ok" ELSE "save_failed"]
            /\ UNCHANGED <<page, end_reason, page_failed>>
  /\ UNCHANGED <<world, total_episodes, total_video_sources, episodes, episode,
                 episodes_seen, fvars, dvars>>

\* leave item `item` of the page for the next item, the next page or the end
LeaveItem ==
  LET pos == AfterItem(page, item, anime_list) IN
  /\ cpc' = pos.cpc
  /\ page' = pos.page
  /\ anime_list' = pos.anime_list
  /\ item' = pos.item
  /\ end_reason' = pos.end
  /\ episodes' = 0
  /\ episode' = 0

\* one iteration of the item loop up to the episode loop: fetch the detail page,
\* parse, save the detail with its episodes
CrawlItem ==
  /\ cpc = "item"
  /\ \E d \in DetailFetches :
       IF ~d.ok
       THEN /\ errors' = DetailFetchError(errors, page, item)
            /\ faults' = faults + 1
            /\ last_fault' = <<"fetch_detail", page, item, 0>>
            /\ cop' = [step |-> "item", outcome |-> "fetch_failed"]
            /\ LeaveItem
            /\ written' = [written EXCEPT !.detail = FALSE, !.sources = {}]
            /\ UNCHANGED <<total_episodes, episodes_seen>>
       ELSE IF ~d.titled
       THEN /\ cop' = [step |-> "item", outcome |-> "empty_title"]
            /\ LeaveItem
            /\ written' = [written EXCEPT !.detail = FALSE, !.sources = {}]
            /\ errors' = EmptyDetailError(errors, page, item)
            /\ UNCHANGED <<faults, last_fault, total_episodes, episodes_seen>>
       ELSE \E saved \in StoreWrites(world.detail_save_ok) :
            /\ total_episodes' = IF saved THEN total_episodes + d.eps ELSE total_episodes
            /\ written' = [written EXCEPT !.detail = saved, !.sources = {}]
            /\ errors' = IF saved THEN errors ELSE DetailSaveError(errors, page, item)
            /\ faults' = IF saved THEN faults ELSE faults + 1
            /\ last_fault' = IF saved THEN last_fault ELSE <<"save_detail", page, item, 0>>
            /\ cop' = [step |-> "item", outcome |-> IF saved THEN "ok" ELSE "save_failed"]
            /\ episodes_seen' = episodes_seen + d.eps
            /\ IF EpisodesToFetch(d.eps, saved) = 0
                 THEN LeaveItem
                 ELSE /\ cpc' = "episode"
                      /\ episodes' = EpisodesToFetch(d.eps, saved)
                      /\ episode' = 1
                      /\ UNCHANGED <<page, anime_list, item, end_reason>>
  /\ UNCHANGED <<world, pages_processed, total_crawled, total_video_sources, pages_fetched,
                 page_failed, items_seen, fvars, dvars>>

\* one iteration of the episode loop: fetch the episode page, parse, save the sources
CrawlEpisode ==
  /\ cpc = "episode"
  /\ \E e \in EpisodeFetches :
       IF ~e.ok
       THEN /\ errors' = EpisodeFetchError(errors, page, item, episode)
            /\ faults' = faults + 1
            /\ last_fault' = <<"fetch_episode", page, item, episode>>
            /\ cop' = [step |-> "episode", outcome |-> "fetch_failed"]
            /\ UNCHANGED <<total_video_sources, written>>
       ELSE IF e.sources = 0
       THEN /\ cop' = [step |-> "episode", outcome |-> "no_sources"]
            /\ UNCHANGED <<errors, faults, last_fault, total_video_sources, written>>
       ELSE \E saved \in StoreWrites(TRUE) :
            /\ total_video_sources' =
                 IF saved THEN total_video_sources + e.sources ELSE total_video_sources
            /\ \E rows \in SourcesStored(written.sources, episode, e.sources, saved) :
                 written' = [written EXCEPT !.sources = rows]
            /\ errors' = IF saved THEN errors
                         ELSE SourcesSaveError(errors, page, item, episode)
            /\ faults' = IF saved THEN faults ELSE faults + 1
            /\ last_fault' = IF saved THEN last_fault
                             ELSE <<"save_sources", page, item, episode>>
            /\ cop' = [step |-> "episode", outcome |-> IF saved THEN "ok" ELSE "save_failed"]
  /\ IF episode < episodes
       THEN /\ episode' = episode + 1
            /\ UNCHANGED <<cpc, page, anime_list, item, end_reason, episodes>>
       ELSE LeaveItem
  /\ UNCHANGED <<world, pages_processed, total_crawled, total_episodes, pages_fetched,
                 page_failed, items_seen, episodes_seen, fvars, dvars>>

\* ------------------------------------------------------------------------
\* Cache layer (src/src/db/repository.rs): table cache_metadata
\* ------------------------------------------------------------------------
\* number of callers that use the database at the same time
MaxClients == 2
\* number of steps the clock makes
MaxTicks == 1

\* DEFAULT_CACHE_TTL_MS: one hour
DEFAULT_CACHE_TTL_MS == 3600 * 1000


\* cache_keys::UPDATES and cache_keys::anime_detail(slug)
UPDATES == <<"updates">>
anime_detail(slug) == <<"anime", slug>>
\* the keys of the model: the updates list and the detail of one anime
CacheKeys == {UPDATES, anime_detail(1)}

\* the clock advances by one millisecond or by the default TTL
TickSteps == {1, DEFAULT_CACHE_TTL_MS}
\* the max_age_ms arguments of the model
MaxAges == {0, 1, DEFAULT_CACHE_TTL_MS}

Never == -1
\* a cache operation and its result: ok (no database error), the boolean it returned
\* and the timestamp or count it returned
CacheCall(o, k, m, ok, b, n) == [op |-> o, cache_key |-> k, max_age_ms |-> m, ok |-> ok, flag |-> b, num |-> n]
NoCall == CacheCall("none", <<>>, 0, TRUE, FALSE, Never)

\* the rows of cache_metadata with this key
CacheRows(table, k) == {r \in table : r.cache_key = k}

\* age_ms <= max_age_ms in place of age_ms < max_age_ms
AgeWithin_inclusive(age_ms, max_age_ms) == age_ms <= max_age_ms

\* is_cache_valid: the comparison of the age with max_age_ms
AgeWithin(age_ms, max_age_ms) == age_ms < max_age_ms

\* is_cache_valid: fetch_optional of last_fetched, then the age against max_age_ms
is_cache_valid(table, k, max_age_ms, t) ==
  LET rows == CacheRows(table, k) IN
  IF rows = {}
    THEN FALSE
    ELSE LET row == CHOOSE r \in rows : TRUE
             age_ms == t - row.last_fetched
         IN AgeWithin(age_ms, max_age_ms)

\* get_cache_timestamp: fetch_optional of last_fetched
get_cache_timestamp(table, k) ==
  LET rows == CacheRows(table, k) IN
  IF rows = {} THEN Never ELSE (CHOOSE r \in rows : TRUE).last_fetched

\* INSERT ... ON CONFLICT (cache_key) DO UPDATE SET last_fetched = ts
UpsertCacheRow(table, k, ts) ==
  (table \ CacheRows(table, k)) \cup {[cache_key |-> k, last_fetched |-> ts]}

\* the clock
Tick ==
  /\ ticks < MaxTicks
  /\ \E d \in TickSteps : now' = now + d
  /\ ticks' = ticks + 1
  /\ UNCHANGED <<cache_metadata, pending, cache_call, refreshed_at>>

\* update_cache_timestamp, first half: the statement of one of at most MaxClients
\* callers starts and CURRENT_TIMESTAMP, the start time of its transaction, is fixed.
\* Callers are not told apart: the statements in flight are a set.
UpdateCacheTimestampStart(k) ==
  /\ Cardinality(pending) < MaxClients
  /\ pending' = pending \cup {[cache_key |-> k, ts |-> now]}
  /\ cache_call' = CacheCall("update_start", k, 0, TRUE, FALSE, now)
  /\ UNCHANGED <<now, ticks, cache_metadata, refreshed_at>>

\* update_cache_timestamp, second half: the row is written (or the statement fails)
UpdateCacheTimestampApply(st) ==
  /\ st \in pending
  /\ \E db_ok \in BOOLEAN :
       IF db_ok
         THEN /\ cache_metadata' = UpsertCacheRow(cache_metadata, st.cache_key, st.ts)
              /\ refreshed_at' = [refreshed_at EXCEPT ![st.cache_key] = st.ts]
              /\ cache_call' = CacheCall("update_cache_timestamp", st.cache_key, 0, TRUE, FALSE, st.ts)
         ELSE /\ UNCHANGED <<cache_metadata, refreshed_at>>
              /\ cache_call' = CacheCall("update_cache_timestamp", st.cache_key, 0, FALSE, FALSE, st.ts)
  /\ pending' = pending \ {st}
  /\ UNCHANGED <<now, ticks>>

\* is_cache_valid
IsCacheValid(k, max_age_ms) ==
  /\ \E db_ok \in BOOLEAN :
       cache_call' = CacheCall("is_cache_valid", k, max_age_ms, db_ok,
                               db_ok /\ is_cache_valid(cache_metadata, k, max_age_ms, now), Never)
  /\ UNCHANGED <<now, ticks, cache_metadata, pending, refreshed_at>>

\* get_cache_timestamp
GetCacheTimestamp(k) ==
  /\ \E db_ok \in BOOLEAN :
       cache_call' = CacheCall("get_cache_timestamp", k, 0, db_ok, FALSE,
                               IF db_ok THEN get_cache_timestamp(cache_metadata, k) ELSE Never)
  /\ UNCHANGED <<now, ticks, cache_metadata, pending, refreshed_at>>

\* delete_cache_entry: reports whether a row existed
DeleteCacheEntry(k) ==
  /\ cache_metadata' = cache_metadata \ CacheRows(cache_metadata, k)
  /\ refreshed_at' = [refreshed_at EXCEPT ![k] = Never]
  /\ cache_call' = CacheCall("delete_cache_entry", k, 0, TRUE, CacheRows(cache_metadata, k) # {}, Never)
  /\ UNCHANGED <<now, ticks, pending>>

\* delete_all_cache_entries: reports the number of rows deleted
DeleteAllCacheEntries ==
  /\ cache_metadata' = {}
  /\ refreshed_at' = [k \in CacheKeys |-> Never]
  /\ cache_call' = CacheCall("delete_all_cache_entries", <<>>, 0, TRUE, FALSE, Cardinality(cache_metadata))
  /\ UNCHANGED <<now, ticks, pending>>

\* the cache layer before its first call: the table is empty
InitCache ==
  /\ now = 0
  /\ ticks = 0
  /\ cache_metadata = {}
  /\ pending = {}
  /\ cache_call = NoCall
  /\ refreshed_at = [k \in CacheKeys |-> Never]

\* the cache layer is not part of this specification
CacheOff == InitCache

\* ------------------------------------------------------------------------
\* Crawled anime (src/src/db/repository.rs): table crawled_anime
\* ------------------------------------------------------------------------
\* number of slugs of the model
MaxSlugs == 2
\* number of values the fields of a record take
MaxValues == 2
\* largest number of records of a batch
MaxBatch == 2

Slugs == 1..MaxSlugs
FieldValues == 1..MaxValues
\* a CrawledAnime: its slug, and v for title, url, thumbnail, status, type, episode_status
CrawledAnimes == [slug : Slugs, v : FieldValues]

NoTx == [open |-> FALSE, n |-> 0, writes |-> {}]
CatalogCall(o, ok, rep) == [op |-> o, ok |-> ok, repeated |-> rep]

\* ON CONFLICT (slug) DO NOTHING in place of DO UPDATE
UpsertCrawledAnime_do_nothing(table, anime) ==
  IF \E r \in table : r.slug = anime.slug THEN table ELSE table \cup {anime}

\* INSERT INTO crawled_anime ... ON CONFLICT (slug) DO UPDATE SET the fields
UpsertCrawledAnime(table, anime) ==
  {r \in table : r.slug # anime.slug} \cup {anime}

\* the rows of table with the writes of a transaction applied
Committed(table, writes) ==
  {r \in table : \A w \in writes : w.slug # r.slug} \cup writes

\* no transaction: the writes made before the failure stay
RolledBack_partial(table, writes) == Committed(table, writes)

\* tx is dropped without commit: the writes of the transaction are rolled back
RolledBack(table, writes) == table

\* what an upsert leaves in last_upsert
Applied(last, writes) ==
  [s \in Slugs |-> IF \E w \in writes : w.slug = s
                     THEN (CHOOSE w \in writes : w.slug = s).v
                     ELSE last[s]]

\* save_crawled_anime: one upsert on the pool
SaveCrawledAnime(anime) ==
  /\ \E db_ok \in BOOLEAN :
       IF db_ok
         THEN /\ crawled_anime' = UpsertCrawledAnime(crawled_anime, anime)
              /\ last_upsert' = Applied(last_upsert, {anime})
              /\ catalog_call' = CatalogCall("save_crawled_anime", TRUE, anime \in crawled_anime)
         ELSE /\ UNCHANGED <<crawled_anime, last_upsert>>
              /\ catalog_call' = CatalogCall("save_crawled_anime", FALSE, FALSE)
  /\ UNCHANGED batch_tx

\* save_crawled_anime_batch with an empty list: Ok(()) before any statement
BatchEmpty ==
  /\ ~batch_tx.open
  /\ catalog_call' = CatalogCall("batch_empty", TRUE, FALSE)
  /\ UNCHANGED <<crawled_anime, batch_tx, last_upsert>>

\* save_crawled_anime_batch with a non-empty list: pool.begin()
BatchBegin ==
  /\ ~batch_tx.open
  /\ \E db_ok \in BOOLEAN :
       IF db_ok
         THEN /\ batch_tx' = [open |-> TRUE, n |-> 0, writes |-> {}]
              /\ catalog_call' = CatalogCall("begin", TRUE, FALSE)
         ELSE /\ batch_tx' = NoTx
              /\ catalog_call' = CatalogCall("batch", FALSE, FALSE)
  /\ UNCHANGED <<crawled_anime, last_upsert>>

\* save_crawled_anime_batch: the upsert of the next record of the list, on the transaction
BatchWrite(anime) ==
  /\ batch_tx.open
  /\ batch_tx.n < MaxBatch
  /\ \E db_ok \in BOOLEAN :
       IF db_ok
         THEN /\ batch_tx' = [open |-> TRUE, n |-> batch_tx.n + 1,
                              writes |-> UpsertCrawledAnime(batch_tx.writes, anime)]
              /\ catalog_call' = CatalogCall("write", TRUE, FALSE)
              /\ UNCHANGED <<crawled_anime, last_upsert>>
         ELSE /\ batch_tx' = [batch_tx EXCEPT !.open = FALSE]
              /\ crawled_anime' = RolledBack(crawled_anime, batch_tx.writes)
              /\ last_upsert' = last_upsert
              /\ catalog_call' = CatalogCall("batch", FALSE, FALSE)

\* save_crawled_anime_batch: tx.commit() after the last record
BatchCommit ==
  /\ batch_tx.open
  /\ batch_tx.n >= 1
  /\ \E db_ok \in BOOLEAN :
       IF db_ok
         THEN /\ crawled_anime' = Committed(crawled_anime, batch_tx.writes)
              /\ last_upsert' = Applied(last_upsert, batch_tx.writes)
              /\ catalog_call' = CatalogCall("batch", TRUE, FALSE)
         ELSE /\ crawled_anime' = RolledBack(crawled_anime, batch_tx.writes)
              /\ last_upsert' = last_upsert
              /\ catalog_call' = CatalogCall("batch", FALSE, FALSE)
  /\ batch_tx' = [batch_tx EXCEPT !.open = FALSE]

\* table crawled_anime before its first write
InitCatalog ==
  /\ crawled_anime = {}
  /\ batch_tx = NoTx
  /\ catalog_call = CatalogCall("none", TRUE, FALSE)
  /\ last_upsert = [s \in Slugs |-> 0]

\* table crawled_anime is not part of this specification
CatalogOff == InitCatalog

\* ------------------------------------------------------------------------
\* Anime detail with episodes (src/src/db/repository.rs): tables anime_details, episodes
\* ------------------------------------------------------------------------
\* number of episode urls of the model
MaxUrls == 1

Urls == 1..MaxUrls
\* the title of a parsed detail: EmptyTitle is the empty string
EmptyTitle == 0
Titles == FieldValues
\* an Episode: its url, and v for number, title, release_date
Episodes == [url : Urls, v : FieldValues]
\* the episode lists of the model: every url at most once
EpisodeLists == {e \in UNION {[1..n -> Episodes] : n \in 0..MaxUrls} :
                   \A i, j \in 1..Len(e) : i # j => e[i].url # e[j].url}
\* an AnimeDetail: title stands for every column of anime_details
AnimeDetails == [title : Titles, episodes : EpisodeLists]
\* what get_anime_detail returns for a slug without a row: None
NoDetail == [title |-> EmptyTitle, episodes |-> <<>>]

\* INSERT INTO anime_details ... ON CONFLICT (slug) DO NOTHING
UpsertAnimeDetail_do_nothing(table, slug, detail) ==
  IF \E r \in table : r.slug = slug
    THEN table
    ELSE table \cup {[slug |-> slug, title |-> detail.title]}

\* INSERT INTO anime_details ... ON CONFLICT (slug) DO UPDATE SET the columns
UpsertAnimeDetail(table, slug, detail) ==
  {r \in table : r.slug # slug} \cup {[slug |-> slug, title |-> detail.title]}

\* INSERT INTO episodes ... ON CONFLICT (url) DO UPDATE SET anime_slug and the columns:
\* a stored row keeps its id, a new row gets the next id
UpsertEpisode(table, slug, ep) ==
  LET row == [anime_slug |-> slug, url |-> ep.url, v |-> ep.v] IN
  IF \E i \in 1..Len(table) : table[i].url = ep.url
    THEN [i \in 1..Len(table) |-> IF table[i].url = ep.url THEN row ELSE table[i]]
    ELSE Append(table, row)

\* the loop over detail.episodes
RECURSIVE UpsertEpisodes(_, _, _)
UpsertEpisodes(table, slug, eps) ==
  IF eps = <<>> THEN table
  ELSE UpsertEpisodes(UpsertEpisode(table, slug, Head(eps)), slug, Tail(eps))

\* SELECT ... FROM anime_details WHERE slug = $1: the title of the row, EmptyTitle for None
SelectAnimeDetail(table, slug) ==
  IF \E r \in table : r.slug = slug
    THEN (CHOOSE r \in table : r.slug = slug).title
    ELSE EmptyTitle

\* get_episodes: SELECT ... FROM episodes WHERE anime_slug = $1 ORDER BY id ASC
RECURSIVE get_episodes(_, _)
get_episodes(table, slug) ==
  IF table = <<>> THEN <<>>
  ELSE LET rest == get_episodes(Tail(table), slug)
           row == Head(table)
       IN IF row.anime_slug = slug
            THEN <<[url |-> row.url, v |-> row.v]>> \o rest
            ELSE rest

\* the detail the store holds for a slug
StoredDetail(details, eps, slug) ==
  IF \E r \in details : r.slug = slug
    THEN [title |-> SelectAnimeDetail(details, slug), episodes |-> get_episodes(eps, slug)]
    ELSE NoDetail

NoRead == [pc |-> "idle", slug |-> 0, title |-> EmptyTitle, ok |-> TRUE, result |-> NoDetail]

\* save_anime_detail_with_episodes: one transaction with the upsert of the detail and
\* the upsert of each episode; the writes reach the tables at commit, an error at
\* begin, at a statement or at commit leaves the tables as they were
SaveAnimeDetailWithEpisodes(slug, detail) ==
  /\ \E db_ok \in BOOLEAN :
       IF db_ok
         THEN /\ anime_details' = UpsertAnimeDetail(anime_details, slug, detail)
              /\ episodes_table' = UpsertEpisodes(episodes_table, slug, detail.episodes)
              /\ detail_call' = [op |-> "save_anime_detail_with_episodes", slug |-> slug, ok |-> TRUE]
              /\ views' = IF detail_read.pc = "parent"
                            THEN views \cup {StoredDetail(anime_details', episodes_table',
                                                          detail_read.slug)}
                            ELSE views
         ELSE /\ UNCHANGED <<anime_details, episodes_table, views>>
              /\ detail_call' = [op |-> "save_anime_detail_with_episodes", slug |-> slug, ok |-> FALSE]
  /\ UNCHANGED detail_read

\* get_anime_detail, first query: the row of anime_details; None returns Ok(None)
GetAnimeDetailRow(slug) ==
  /\ detail_read.pc # "parent"
  /\ views' = {StoredDetail(anime_details, episodes_table, slug)}
  /\ \E db_ok \in BOOLEAN :
       IF ~db_ok
         THEN detail_read' = [pc |-> "done", slug |-> slug, title |-> EmptyTitle, ok |-> FALSE,
                              result |-> NoDetail]
       ELSE IF \E r \in anime_details : r.slug = slug
         THEN detail_read' = [pc |-> "parent", slug |-> slug,
                              title |-> SelectAnimeDetail(anime_details, slug), ok |-> TRUE,
                              result |-> NoDetail]
         ELSE detail_read' = [pc |-> "done", slug |-> slug, title |-> EmptyTitle, ok |-> TRUE,
                              result |-> NoDetail]
  /\ UNCHANGED <<anime_details, episodes_table, detail_call>>

\* get_anime_detail, second query: get_episodes, a statement of its own on the pool
GetAnimeDetailEpisodes ==
  /\ detail_read.pc = "parent"
  /\ \E db_ok \in BOOLEAN :
       IF db_ok
         THEN detail_read' = [detail_read EXCEPT
                !.pc = "done",
                !.result = [title |-> detail_read.title,
                            episodes |-> get_episodes(episodes_table, detail_read.slug)]]
         ELSE detail_read' = [detail_read EXCEPT !.pc = "done", !.ok = FALSE]
  /\ UNCHANGED <<anime_details, episodes_table, views, detail_call>>

\* the detail tables before their first write
InitDetail ==
  /\ anime_details = {}
  /\ episodes_table = <<>>
  /\ detail_read = NoRead
  /\ views = {}
  /\ detail_call = [op |-> "none", slug |-> 0, ok |-> TRUE]

\* the detail tables are not part of this specification
DetailOff == InitDetail

\* ------------------------------------------------------------------------
\* Video sources (src/src/db/repository.rs): table video_sources
\* ------------------------------------------------------------------------
\* number of different video sources, and the largest length of a list of sources
MaxLeaves == 2
\* number of requests whose headers are recorded
MaxSent == 2
\* number of clients that send a reset_password request for the token
MaxResets == 2

\* the episode urls that own video sources: the episode in work and another one
SourceParents == {"episode", "other"}
\* a VideoSource: v for server, quality, url
VideoSources == 1..MaxLeaves
\* the lists of sources of the model: every source at most once
SourceLists == {l \in UNION {[1..n -> VideoSources] : n \in 0..MaxLeaves} :
                  \A i, j \in 1..Len(l) : i # j => l[i] # l[j]}

\* the DELETE left out
DeleteVideoSources_none(table, episode_url) == table

\* DELETE FROM video_sources WHERE episode_url = $1
DeleteVideoSources(table, episode_url) ==
  LET Other(row) == row.episode_url # episode_url IN SelectSeq(table, Other)

\* INSERT INTO video_sources (episode_url, server, quality, url, updated_at): the next id
InsertVideoSource(table, episode_url, source) ==
  Append(table, [episode_url |-> episode_url, v |-> source])

\* get_video_sources: SELECT server, quality, url ... WHERE episode_url = $1 ORDER BY id ASC
get_video_sources(table, episode_url) ==
  LET Mine(row) == row.episode_url = episode_url
      rows == SelectSeq(table, Mine)
  IN [i \in 1..Len(rows) |-> rows[i].v]

\* a call: its arguments, its position, its result, and whether its DELETE removed a
\* source that is not in its list
SourceCall(pc, episode_url, sources, next, ok, dropped) == [pc |-> pc, episode_url |-> episode_url, sources |-> sources, next |-> next, ok |-> ok, dropped |-> dropped]
IdleCall == SourceCall("idle", "", <<>>, 0, TRUE, FALSE)
InFlight == source_call.pc = "insert"

\* save_video_sources up to the loop: the DELETE; an error returns, an empty list
\* returns Ok(())
SaveVideoSourcesDelete(episode_url, sources) ==
  /\ ~InFlight
  /\ \E db_ok \in BOOLEAN :
       LET replaced == get_video_sources(video_sources, episode_url)
           dropped == \E i \in 1..Len(replaced) :
                        \A j \in 1..Len(sources) : sources[j] # replaced[i]
           returns == ~db_ok \/ sources = <<>>
       IN /\ video_sources' = IF db_ok THEN DeleteVideoSources(video_sources, episode_url)
                                       ELSE video_sources
          /\ source_call' = SourceCall(IF returns THEN "returned" ELSE "insert", episode_url,
                                       sources, 1, db_ok, dropped)

\* save_video_sources, one iteration of the loop: the INSERT of the next source; an
\* error returns and leaves the rows written so far, the last source returns Ok(())
SaveVideoSourcesInsert ==
  /\ InFlight
  /\ \E db_ok \in BOOLEAN :
       LET returns == ~db_ok \/ source_call.next = Len(source_call.sources) IN
       /\ video_sources' = IF db_ok
                             THEN InsertVideoSource(video_sources, source_call.episode_url,
                                                    source_call.sources[source_call.next])
                             ELSE video_sources
       /\ source_call' = [source_call EXCEPT
            !.pc = IF returns THEN "returned" ELSE "insert",
            !.next = IF db_ok THEN source_call.next + 1 ELSE source_call.next,
            !.ok = db_ok]

\* table video_sources before its first write
InitSources ==
  /\ video_sources = <<>>
  /\ source_call = IdleCall

\* get_video_sources, called while a save_video_sources call is in progress or after it
ReadVideoSources(episode_url) ==
  /\ sources_read' = [episode_url |-> episode_url, taken |-> TRUE,
                      rows |-> get_video_sources(video_sources, episode_url)]
  /\ UNCHANGED <<video_sources, source_call, sources_before>>

NoSourcesRead == [episode_url |-> "", taken |-> FALSE, rows |-> <<>>]

\* no get_video_sources call was made
InitSourcesRead ==
  /\ sources_read = NoSourcesRead
  /\ sources_before = <<>>

\* ------------------------------------------------------------------------
\* The user agent and the Sec-Ch-Ua headers of a request
\* ------------------------------------------------------------------------

\* one entry of USER_AGENTS: the browser and the platform the entry is listed under,
\* and which of the substrings get_sec_ch_ua looks for occur in its text
UserAgent(browser, platform, parts) ==
  [browser |-> browser, platform |-> platform, parts |-> parts]

USER_AGENTS ==
  << UserAgent("Chrome", "Windows", {"Chrome/120"}),
     UserAgent("Chrome", "Windows", {"Chrome/119"}),
     UserAgent("Chrome", "macOS", {"Macintosh", "Chrome/120"}),
     UserAgent("Firefox", "Windows", {}),
     UserAgent("Firefox", "macOS", {"Macintosh"}),
     UserAgent("Safari", "macOS", {"Macintosh"}),
     UserAgent("Edge", "Windows", {"Chrome/120", "Edg/"}) >>

\* str::contains on the text of a user agent
Contains(user_agent, part) == part \in user_agent.parts

\* the triple get_sec_ch_ua returns: Sec-Ch-Ua as its last brand and the version
SecChUa(brand, version, mobile, platform) ==
  [brand |-> brand, version |-> version, mobile |-> mobile, platform |-> platform]

NoSecChUa == SecChUa("", 0, "", "")

\* Scraper::get_sec_ch_ua
get_sec_ch_ua(user_agent) ==
  IF Contains(user_agent, "Chrome/120")
    THEN SecChUa("Google Chrome", 120, "?0", "Windows")
  ELSE IF Contains(user_agent, "Chrome/119")
    THEN SecChUa("Google Chrome", 119, "?0", "Windows")
  ELSE IF Contains(user_agent, "Edg/")
    THEN SecChUa("Microsoft Edge", 120, "?0", "Windows")
  ELSE IF Contains(user_agent, "Macintosh")
    THEN SecChUa("Google Chrome", 120, "?0", "macOS")
  ELSE NoSecChUa

\* Scraper::get_user_agent: the indices it can return
get_user_agent(rotate) ==
  IF rotate THEN 1..Len(USER_AGENTS) ELSE {1}

\* the request do_fetch builds: its User-Agent as an index of USER_AGENTS and its
\* Sec-Ch-Ua headers when it has them
Request(pc, user_agent, has_sec_ch_ua, sec_ch_ua) ==
  [pc |-> pc, user_agent |-> user_agent, has_sec_ch_ua |-> has_sec_ch_ua,
   sec_ch_ua |-> sec_ch_ua]

NoRequest == Request("idle", 0, FALSE, NoSecChUa)

\* do_fetch: the user agent is chosen
DoFetchUserAgent ==
  /\ request.pc = "idle"
  /\ Len(requests_sent) < MaxSent
  /\ \E idx \in get_user_agent(rotate_user_agent) :
       request' = Request("agent", idx, FALSE, NoSecChUa)
  /\ UNCHANGED <<rotate_user_agent, requests_sent>>

\* do_fetch: the headers are set and the request is sent
DoFetchSend ==
  /\ request.pc = "agent"
  /\ LET triple == get_sec_ch_ua(USER_AGENTS[request.user_agent])
         has == triple.brand # ""
     IN requests_sent' = Append(requests_sent,
          Request("sent", request.user_agent, has, IF has THEN triple ELSE NoSecChUa))
  /\ request' = NoRequest
  /\ UNCHANGED rotate_user_agent

\* Scraper::with_config, no request built yet
InitHeaders ==
  /\ rotate_user_agent \in BOOLEAN
  /\ request = NoRequest
  /\ requests_sent = <<>>

\* the headers are not part of this specification
HeadersOff ==
  /\ rotate_user_agent = TRUE
  /\ request = NoRequest
  /\ requests_sent = <<>>

\* ------------------------------------------------------------------------
\* reset_password
\* ------------------------------------------------------------------------

Resetters == 1..MaxResets
\* the new passwords of the model, by their length; the stored hash is the length
NewPasswords == {0, 5, 6, 8}
\* the hash of the password the user had before
OldHash == 1

TOKEN_TYPE_EMAIL_VERIFICATION == "email_verification"
TOKEN_TYPE_PASSWORD_RESET == "password_reset"

\* a row of verification_tokens: whether the row exists, its type, whether expires_at
\* lies before Utc::now(), whether used_at is set
VerificationToken(found, token_type, expired, used) ==
  [found |-> found, token_type |-> token_type, expired |-> expired, used |-> used]

VerificationTokens ==
  {VerificationToken(FALSE, TOKEN_TYPE_PASSWORD_RESET, FALSE, FALSE)}
  \cup {VerificationToken(TRUE, t, e, u) :
          t \in {TOKEN_TYPE_EMAIL_VERIFICATION, TOKEN_TYPE_PASSWORD_RESET},
          e \in BOOLEAN, u \in BOOLEAN}

\* a reset_password request: position, new password, status of the response
Reset(pc, new_password, status) ==
  [pc |-> pc, new_password |-> new_password, status |-> status]

NoReset == Reset("idle", 0, 0)

\* the checks of reset_password on the token it has read
TokenRefused(token) ==
  \/ token.token_type # TOKEN_TYPE_PASSWORD_RESET
  \/ token.expired
  \/ token.used

\* reset_password up to update_user_password: the checks of the password, the lookup
\* of the token, the checks of the token and the hash
ResetFind(r, new_password) ==
  /\ resets[r].pc = "idle"
  /\ \E db_ok \in BOOLEAN, hash_ok \in BOOLEAN :
       LET Answer(status) == Reset("done", new_password, status)
       IN resets' = [resets EXCEPT ![r] =
            IF new_password < 6 THEN Answer(400)
            ELSE IF ~db_ok THEN Answer(500)
            ELSE IF ~verification_token.found THEN Answer(400)
            ELSE IF TokenRefused(verification_token) THEN Answer(400)
            ELSE IF ~hash_ok THEN Answer(500)
            ELSE Reset("hashed", new_password, 0)]
  /\ UNCHANGED <<verification_token, password_hash>>

\* reset_password: update_user_password
ResetUpdate(r) ==
  /\ resets[r].pc = "hashed"
  /\ \E db_ok \in BOOLEAN :
       IF db_ok
         THEN /\ password_hash' = resets[r].new_password
              /\ resets' = [resets EXCEPT ![r].pc = "updated"]
         ELSE /\ resets' = [resets EXCEPT ![r].pc = "done", ![r].status = 500]
              /\ UNCHANGED password_hash
  /\ UNCHANGED verification_token

\* UPDATE verification_tokens SET used_at = CURRENT_TIMESTAMP WHERE token = $1 AND
\* used_at IS NULL
mark_token_as_used(token) ==
  IF token.found THEN [token EXCEPT !.used = TRUE] ELSE token

\* reset_password: mark_token_as_used, an error is logged, and the response
ResetMark(r) ==
  /\ resets[r].pc = "updated"
  /\ \E db_ok \in BOOLEAN :
       verification_token' = IF db_ok THEN mark_token_as_used(verification_token)
                             ELSE verification_token
  /\ resets' = [resets EXCEPT ![r].pc = "done", ![r].status = 200]
  /\ UNCHANGED password_hash

\* the token passes its expires_at
TokenExpires ==
  /\ verification_token.found
  /\ ~verification_token.expired
  /\ verification_token' = [verification_token EXCEPT !.expired = TRUE]
  /\ UNCHANGED <<password_hash, resets>>

\* some row or none for the token, no request made yet
InitTokens ==
  /\ verification_token \in VerificationTokens
  /\ password_hash = OldHash
  /\ resets = [r \in Resetters |-> NoReset]

\* reset_password is not part of this specification
TokensOff ==
  /\ verification_token = VerificationToken(FALSE, TOKEN_TYPE_PASSWORD_RESET, FALSE, FALSE)
  /\ password_hash = OldHash
  /\ resets = [r \in Resetters |-> NoReset]

\* the operations modelled one by one are not part of this specification
OthersOff == HeadersOff /\ TokensOff

\* table video_sources is not part of this specification
SourcesOff == InitSources /\ InitSourcesRead

\* ------------------------------------------------------------------------
\* Single-key path (src/src/routes/mod.rs): get_anime_by_slug
\* ------------------------------------------------------------------------
\* what parse_anime_detail makes of the live page of an anime: a title, empty when the
\* page is not an anime page, and the first n episodes
LiveDetail(title, n) == [title |-> title, episodes |-> [i \in 1..n |-> [url |-> i, v |-> title]]]
LiveDetails == {LiveDetail(t, n) : t \in {EmptyTitle} \cup Titles, n \in 0..MaxUrls}

\* a response: its status and the detail of its body
Response(status, body) == [status |-> status, body |-> body]
NoResponse == Response(0, NoDetail)

\* Ok(None) answered with 404
AfterStoreRead_not_found(found) == IF found THEN "serve" ELSE "not_found"

\* get_anime_by_slug after get_anime_detail: Some(detail) is served, None is scraped
AfterStoreRead(found) == IF found THEN "serve" ELSE "scrape"

\* no parsed detail counts as empty
EmptyResult_never(detail) == FALSE

\* detail.title.is_empty()
EmptyResult(detail) == detail.title = EmptyTitle

\* the stored detail is read back and served
Returned_stored_copy(detail, stored) == stored

\* scrape_and_save_anime_detail answers with the parsed detail
Returned(detail, stored) == detail

\* a failed fetch is answered with the stored detail when there is one
FetchFailure_serves_stale(stored) ==
  IF stored = NoDetail THEN Response(500, NoDetail) ELSE Response(200, stored)

\* a failed fetch is answered with InternalServerError
FetchFailure(stored) == Response(500, NoDetail)

\* a failed save ends the call
AfterSave_stops_on_error(saved) == IF saved THEN "mark" ELSE "returned"

\* scrape_and_save_anime_detail after save_anime_detail_with_episodes: an error is
\* logged and update_cache_timestamp comes next either way
AfterSave(saved) == "mark"

\* a call: position, slug, what is_cache_valid and get_anime_detail answered, whether
\* the scrape saves, what fetch_page, the parser, the save and the cache update
\* answered, the response and the time of the return
Lookup(pc, slug, fresh, read, saves, live, parsed, saved, marked, resp, at) == [pc |-> pc, slug |-> slug, fresh |-> fresh, read |-> read, saves |-> saves, live |-> live, parsed |-> parsed, saved |-> saved, marked |-> marked, resp |-> resp, at |-> at]
NoLookup == Lookup("idle", 0, "none", "none", FALSE, "none", NoDetail, "none", "none", NoResponse, 0)

\* get_anime_by_slug up to the scrape: is_cache_valid with the default TTL and, for a
\* fresh key, get_anime_detail
LookupCheck(slug) ==
  /\ lookup.pc \in {"idle", "returned"}
  /\ anime_detail(slug) \in CacheKeys
  /\ \E cache_ok \in BOOLEAN, db_ok \in BOOLEAN :
       LET fresh == is_cache_valid(cache_metadata, anime_detail(slug), DEFAULT_CACHE_TTL_MS, now)
           stored == StoredDetail(anime_details, episodes_table, slug)
           found == \E r \in anime_details : r.slug = slug
           Scrape(f, r, saves) == Lookup("fetch", slug, f, r, saves, "none", NoDetail, "none",
                                         "none", NoResponse, now)
           Return(r, resp) == Lookup("returned", slug, "true", r, FALSE, "none", NoDetail,
                                     "none", "none", resp, now)
       IN lookup' =
            IF ~cache_ok THEN Scrape("err", "none", FALSE)
            ELSE IF ~fresh THEN Scrape("false", "none", TRUE)
            ELSE IF ~db_ok THEN Return("err", Response(500, NoDetail))
            ELSE IF AfterStoreRead(found) = "serve" THEN Return("some", Response(200, stored))
            ELSE IF AfterStoreRead(found) = "scrape" THEN Scrape("true", "none", TRUE)
            ELSE Return("none", Response(404, NoDetail))
  /\ UNCHANGED <<kvars, pvars>>

\* scrape_and_save_anime_detail and scrape_anime_detail_only up to the save: fetch_page,
\* taken by its result, and parse_anime_detail
LookupFetch ==
  /\ lookup.pc = "fetch"
  /\ \/ lookup' = [lookup EXCEPT
          !.pc = "returned", !.live = "err", !.at = now,
          !.resp = FetchFailure(StoredDetail(anime_details, episodes_table, lookup.slug))]
     \/ \E detail \in LiveDetails :
          lookup' = IF EmptyResult(detail)
                      THEN [lookup EXCEPT !.pc = "returned", !.live = "ok", !.parsed = detail,
                                          !.at = now, !.resp = Response(404, NoDetail)]
                    ELSE IF lookup.saves
                      THEN [lookup EXCEPT !.pc = "save", !.live = "ok", !.parsed = detail]
                    ELSE [lookup EXCEPT !.pc = "returned", !.live = "ok", !.parsed = detail,
                                        !.at = now, !.resp = Response(200, detail)]
  /\ UNCHANGED <<kvars, pvars>>

\* scrape_and_save_anime_detail: save_anime_detail_with_episodes, an error is logged
LookupSave ==
  /\ lookup.pc = "save"
  /\ \E db_ok \in BOOLEAN :
       IF db_ok
         THEN /\ anime_details' = UpsertAnimeDetail(anime_details, lookup.slug, lookup.parsed)
              /\ episodes_table' = UpsertEpisodes(episodes_table, lookup.slug,
                                                  lookup.parsed.episodes)
              /\ lookup' = [lookup EXCEPT !.pc = AfterSave(TRUE), !.saved = "ok"]
         ELSE /\ UNCHANGED <<anime_details, episodes_table>>
              /\ lookup' = [lookup EXCEPT !.pc = AfterSave(FALSE), !.saved = "err"]
  /\ UNCHANGED <<kvars, detail_read, views, detail_call>>

\* scrape_and_save_anime_detail: update_cache_timestamp, an error is logged, and the
\* response
LookupMark ==
  /\ lookup.pc = "mark"
  /\ LET key == anime_detail(lookup.slug)
         stored == StoredDetail(anime_details, episodes_table, lookup.slug)
         resp == Response(200, Returned(lookup.parsed, stored))
     IN \E db_ok \in BOOLEAN :
          IF db_ok
            THEN /\ cache_metadata' = UpsertCacheRow(cache_metadata, key, now)
                 /\ refreshed_at' = [refreshed_at EXCEPT ![key] = now]
                 /\ lookup' = [lookup EXCEPT !.pc = "returned", !.marked = "ok",
                                             !.resp = resp, !.at = now]
            ELSE /\ UNCHANGED <<cache_metadata, refreshed_at>>
                 /\ lookup' = [lookup EXCEPT !.pc = "returned", !.marked = "err",
                                             !.resp = resp, !.at = now]
  /\ UNCHANGED <<now, ticks, pending, cache_call, pvars>>

\* no get_anime_by_slug call was made
InitLookup == lookup = NoLookup

\* the scheduler resumes the waiting call and the running call waits at its await
SwitchCaller ==
  /\ lookup.pc # "idle" \/ suspended.pc # "idle"
  /\ lookup' = suspended
  /\ suspended' = lookup
  /\ UNCHANGED <<kvars, pvars, last_saved>>

\* the detail of the save the running call has just made, when it returned Ok
LastSaved(call, last) == IF call.saved = "ok" THEN call.parsed ELSE last

\* no second call, nothing saved
InitConcurrent ==
  /\ suspended = NoLookup
  /\ last_saved = NoDetail

\* get_anime_by_slug is not part of this specification
LookupOff == InitLookup /\ InitConcurrent

\* the crawler is not part of this specification
CrawlerOff ==
  /\ world = NoWorld
  /\ cpc = "off"
  /\ page = 1
  /\ pages_processed = 0
  /\ total_crawled = 0
  /\ total_episodes = 0
  /\ total_video_sources = 0
  /\ errors = <<>>
  /\ anime_list = 0
  /\ item = 0
  /\ episodes = 0
  /\ episode = 0
  /\ end_reason = "none"
  /\ pages_fetched = 0
  /\ page_failed = FALSE
  /\ items_seen = 0
  /\ episodes_seen = 0
  /\ faults = 0
  /\ last_fault = <<"none", 0, 0, 0>>
  /\ cop = [step |-> "start", outcome |-> "none"]
  /\ written = NoneWritten

InitFetch == InitScraper /\ CrawlerOff /\ CacheOff /\ CatalogOff /\ DetailOff /\ SourcesOff /\ LookupOff /\ OthersOff

NextFetch ==
  \/ FetchStart
  \/ FetchAttempt
  \/ ResetCounter

SpecFetch == InitFetch /\ [][NextFetch]_vars

\* the Scraper is not part of this specification
ScraperOff ==
  /\ config = DefaultConfig(3)
  /\ request_count = 0
  /\ fpc = "idle"
  /\ attempt = 0
  /\ last_error = NoError
  /\ result = NoResult
  /\ transport_log = <<>>
  /\ attempt_result = NoResult
  /\ sleeps = <<>>
  /\ first_since = TRUE
  /\ op = "with_config"

InitCrawl ==
  /\ ScraperOff
  /\ CacheOff
  /\ CatalogOff
  /\ DetailOff
  /\ SourcesOff
  /\ LookupOff
  /\ OthersOff
  /\ \E w \in {FreeWorld} \cup UniformWorlds : StartCrawler(w)

NextCrawl ==
  \/ CrawlPage
  \/ CrawlItem
  \/ CrawlEpisode

SpecCrawl == InitCrawl /\ [][NextCrawl]_vars

\* run_crawler is one sequential task that is always scheduled again
FairSpecCrawl == SpecCrawl /\ WF_vars(NextCrawl)

InitCacheSpec == ScraperOff /\ CrawlerOff /\ InitCache /\ CatalogOff /\ DetailOff /\ SourcesOff /\ LookupOff /\ OthersOff

NextCache ==
  \/ Tick /\ UNCHANGED but_kvars
  \/ \E k \in CacheKeys : UpdateCacheTimestampStart(k) /\ UNCHANGED but_kvars
  \/ \E st \in pending : UpdateCacheTimestampApply(st) /\ UNCHANGED but_kvars
  \/ \E k \in CacheKeys, m \in MaxAges : IsCacheValid(k, m) /\ UNCHANGED but_kvars
  \/ \E k \in CacheKeys : GetCacheTimestamp(k) /\ UNCHANGED but_kvars
  \/ \E k \in CacheKeys : DeleteCacheEntry(k) /\ UNCHANGED but_kvars
  \/ DeleteAllCacheEntries /\ UNCHANGED but_kvars

SpecCache == InitCacheSpec /\ [][NextCache]_vars

InitCatalogSpec == ScraperOff /\ CrawlerOff /\ CacheOff /\ InitCatalog /\ DetailOff /\ SourcesOff /\ LookupOff /\ OthersOff

NextCatalog ==
  \/ \E anime \in CrawledAnimes : SaveCrawledAnime(anime) /\ UNCHANGED but_svars
  \/ BatchEmpty /\ UNCHANGED but_svars
  \/ BatchBegin /\ UNCHANGED but_svars
  \/ \E anime \in CrawledAnimes : BatchWrite(anime) /\ UNCHANGED but_svars
  \/ BatchCommit /\ UNCHANGED but_svars

SpecCatalog == InitCatalogSpec /\ [][NextCatalog]_vars

InitDetailSpec == ScraperOff /\ CrawlerOff /\ CacheOff /\ CatalogOff /\ InitDetail /\ SourcesOff /\ LookupOff /\ OthersOff

\* one reader and any number of writers on the pool
NextDetail ==
  \/ \E slug \in Slugs, detail \in AnimeDetails :
       SaveAnimeDetailWithEpisodes(slug, detail) /\ UNCHANGED but_pvars
  \/ \E slug \in Slugs : GetAnimeDetailRow(slug) /\ UNCHANGED but_pvars
  \/ GetAnimeDetailEpisodes /\ UNCHANGED but_pvars

SpecDetail == InitDetailSpec /\ [][NextDetail]_vars

InitSourcesSpec == ScraperOff /\ CrawlerOff /\ CacheOff /\ CatalogOff /\ DetailOff /\ InitSources /\ InitSourcesRead /\ LookupOff /\ OthersOff

\* one save_video_sources call after the other
NextSources ==
  \/ \E episode_url \in SourceParents, sources \in SourceLists :
       SaveVideoSourcesDelete(episode_url, sources) /\ UNCHANGED <<but_lvars, rvars>>
  \/ SaveVideoSourcesInsert /\ UNCHANGED <<but_lvars, rvars>>

SpecSources == InitSourcesSpec /\ [][NextSources]_vars

\* one save_video_sources call after the other, and a reader on the pool
NextSourcesRead ==
  \/ \E episode_url \in SourceParents, sources \in SourceLists :
       /\ SaveVideoSourcesDelete(episode_url, sources)
       /\ sources_before' = get_video_sources(video_sources, episode_url)
       /\ sources_read' = NoSourcesRead
       /\ UNCHANGED but_lvars
  \/ SaveVideoSourcesInsert /\ UNCHANGED <<but_lvars, rvars>>
  \/ \E episode_url \in SourceParents :
       ReadVideoSources(episode_url) /\ UNCHANGED but_lvars

SpecSourcesRead == InitSourcesSpec /\ [][NextSourcesRead]_vars

but_uvars == <<fvars, cvars, kvars, svars, pvars, lvars, rvars, hvars, wvars, tvars>>
but_tvars == <<fvars, cvars, kvars, svars, pvars, lvars, rvars, hvars, wvars, uvars>>

InitHeadersSpec ==
  /\ ScraperOff /\ CrawlerOff /\ CacheOff /\ CatalogOff /\ DetailOff /\ SourcesOff /\ LookupOff
  /\ InitHeaders /\ TokensOff

NextHeaders ==
  \/ DoFetchUserAgent /\ UNCHANGED but_uvars
  \/ DoFetchSend /\ UNCHANGED but_uvars

SpecHeaders == InitHeadersSpec /\ [][NextHeaders]_vars

InitResetSpec ==
  /\ ScraperOff /\ CrawlerOff /\ CacheOff /\ CatalogOff /\ DetailOff /\ SourcesOff /\ LookupOff
  /\ HeadersOff /\ InitTokens

\* the reset_password requests of the clients for one token, interleaved at their awaits
NextReset ==
  \/ \E r \in Resetters, new_password \in NewPasswords :
       ResetFind(r, new_password) /\ UNCHANGED but_tvars
  \/ \E r \in Resetters : ResetUpdate(r) /\ UNCHANGED but_tvars
  \/ \E r \in Resetters : ResetMark(r) /\ UNCHANGED but_tvars
  \/ TokenExpires /\ UNCHANGED but_tvars

SpecReset == InitResetSpec /\ [][NextReset]_vars

InitLookupSpec ==
  /\ ScraperOff /\ CrawlerOff /\ CatalogOff /\ SourcesOff /\ OthersOff
  /\ InitCache /\ InitDetail /\ InitLookup /\ InitConcurrent

\* one get_anime_by_slug call after the other, while the clock advances
NextLookup ==
  \/ Tick /\ UNCHANGED but_kvars
  \/ \E slug \in Slugs : LookupCheck(slug) /\ UNCHANGED <<but_hvars, wvars>>
  \/ LookupFetch /\ UNCHANGED <<but_hvars, wvars>>
  \/ LookupSave /\ UNCHANGED <<but_hvars, wvars>>
  \/ LookupMark /\ UNCHANGED <<but_hvars, wvars>>

SpecLookup == InitLookupSpec /\ [][NextLookup]_vars

\* two callers of get_anime_by_slug, one call each, interleaved at their awaits, while
\* the clock advances
NextConcurrent ==
  \/ Tick /\ UNCHANGED but_kvars
  \/ \E slug \in Slugs :
       lookup.pc = "idle" /\ LookupCheck(slug) /\ UNCHANGED <<but_hvars, wvars>>
  \/ LookupFetch /\ UNCHANGED <<but_hvars, wvars>>
  \/ /\ LookupSave
     /\ last_saved' = LastSaved(lookup', last_saved)
     /\ UNCHANGED <<but_hvars, suspended>>
  \/ LookupMark /\ UNCHANGED <<but_hvars, wvars>>
  \/ SwitchCaller /\ UNCHANGED but_hvars

SpecConcurrent == InitLookupSpec /\ [][NextConcurrent]_vars

\* ------------------------------------------------------------------------
\* Properties of the Scraper (SpecFetch)
\* ------------------------------------------------------------------------
\* the transport answered with a status fetch_page retries on
RetryableResponse(resp) == resp.sent /\ (resp.status = 429 \/ resp.status >= 500)
\* the transport answered 200 with a readable body
GoodResponse(resp) == resp.sent /\ resp.status = 200 /\ resp.body_ok
\* the error a retryable answer stands for
RetryableErrorOf(resp) == IF resp.status = 429 THEN RateLimited ELSE HttpError(resp.status)
\* number of transport calls of the current fetch_page call
Calls == Len(transport_log)
AllRetryable(log) == \A i \in 1..Len(log) : RetryableResponse(log[i])

\* C1: when the first k < max_retries attempts of a fetch were answered with a
\* retryable failure (429 or a status >= 500) the fetch is still in its retry loop
\* about to make attempt k+1, and when attempt k+1 is answered with HTTP 200 the
\* fetch has returned a successful result after exactly k+1 transport calls.
C1_RetrySuccess ==
  /\ (fpc # "idle" /\ Calls < config.max_retries /\ AllRetryable(transport_log))
       => (fpc = "loop" /\ attempt = Calls)
  /\ (Calls >= 1 /\ AllRetryable(SubSeq(transport_log, 1, Calls - 1))
         /\ GoodResponse(transport_log[Calls]))
       => (fpc = "returned" /\ result = Ok(200) /\ Calls <= config.max_retries)

\* C1 witness: 503, 503, 200 with max_retries = 3 has returned success after 3 calls
C1_Witness ==
  /\ config.max_retries = 3
  /\ Calls = 3
  /\ transport_log[1].status = 503 /\ transport_log[2].status = 503
  /\ GoodResponse(transport_log[3])
  /\ fpc = "returned" /\ result.ok

\* C2: when every attempt of a fetch yields a retryable error, the fetch never makes
\* more than max_retries transport calls, has returned only after exactly max_retries
\* calls, and returns the retryable error of the last attempt.
C2_RetryExhaustion ==
  /\ Calls <= config.max_retries
  /\ (fpc = "returned" /\ AllRetryable(transport_log))
       => /\ Calls = config.max_retries
          /\ Calls >= 1 => result = Err(RetryableErrorOf(transport_log[Calls]))

\* C2 witness: always-500 with max_retries = 2 has returned HttpError(500) after 2 calls
C2_Witness ==
  /\ config.max_retries = 2
  /\ fpc = "returned"
  /\ Calls = 2
  /\ \A i \in 1..2 : transport_log[i].sent /\ transport_log[i].status = 500
  /\ result = Err(HttpError(500))

\* the attempt was answered with something fetch_page does not retry on
NonRetryableResponse(resp) ==
  \/ ~resp.sent
  \/ (resp.sent /\ resp.status # 200 /\ resp.status # 429 /\ resp.status < 500)
  \/ (resp.sent /\ resp.status = 200 /\ ~resp.body_ok)
\* the kind of error such an answer stands for
NonRetryableTypeOf(resp) ==
  IF ~resp.sent THEN "NetworkError"
  ELSE IF resp.status = 200 THEN "ResponseError"
  ELSE "HttpError"

\* C3: an attempt that yields a non-retryable error (a transport failure, a status
\* other than 200 and 429 below 500, an unreadable body) is the last attempt of its
\* fetch: the fetch has returned that error and makes no further transport call.
C3_NoRetry ==
  \A i \in 1..Calls :
    NonRetryableResponse(transport_log[i])
      => /\ i = Calls
         /\ fpc = "returned"
         /\ ~result.ok
         /\ result.err.type = NonRetryableTypeOf(transport_log[i])
         /\ result.err.type = "HttpError" => result.err.code = transport_log[i].status

\* C3 witness: a connection failure on the first call ended the fetch after 1 attempt
C3_Witness ==
  /\ config.max_retries = 3
  /\ Calls = 1
  /\ ~transport_log[1].sent /\ transport_log[1].reason = "connect"
  /\ fpc = "returned"
  /\ result = Err(NetworkError("Failed to connect to server"))

\* C4 (as amended): a response with status 429 is classified RateLimited, a response
\* with any other status than 200 is classified HttpError(code), also for the other
\* statuses in 200..299, and a response with status 200 and a readable body is a
\* success carrying the status.
C4_Classification ==
  Calls >= 1 =>
    LET resp == transport_log[Calls] IN
    resp.sent =>
      /\ resp.status = 429 => attempt_result = Err(RateLimited)
      /\ (resp.status # 429 /\ resp.status # 200) => attempt_result = Err(HttpError(resp.status))
      /\ (resp.status = 200 /\ resp.body_ok) => attempt_result = Ok(200)

\* C4 witness: a 204 answer was classified HttpError(204)
C4_Witness ==
  /\ Calls >= 1
  /\ transport_log[Calls].sent /\ transport_log[Calls].status = 204
  /\ attempt_result = Err(HttpError(204))

\* C4 as claimed: 429 is RateLimited, every other status outside 200..299 is
\* HttpError(code), and every status inside 200..299 is a success.
C4_Original ==
  Calls >= 1 =>
    LET resp == transport_log[Calls] IN
    resp.sent =>
      /\ resp.status = 429 => attempt_result = Err(RateLimited)
      /\ (resp.status # 429 /\ (resp.status < 200 \/ resp.status > 299))
           => attempt_result = Err(HttpError(resp.status))
      /\ (resp.status >= 200 /\ resp.status <= 299 /\ resp.body_ok)
           => attempt_result = Ok(resp.status)

\* C5: a fetch_page call raises the request counter by one and sleeps the pacing
\* delay, a value within [min_delay_ms, max_delay_ms], before its first attempt unless
\* it is the first call since construction or since the last reset_counter, in which
\* case it sleeps nothing; reset_counter sets the counter to 0.
C5_Pacing ==
  [][ /\ op' = "fetch_page" =>
          /\ request_count' = request_count + 1
          /\ first_since => sleeps' = <<>>
          /\ ~first_since =>
               /\ Len(sleeps') = 1
               /\ sleeps'[1][1] = "delay"
               /\ sleeps'[1][2] >= config.min_delay_ms
               /\ sleeps'[1][2] <= config.max_delay_ms
      /\ op' = "reset_counter" => request_count' = 0
      /\ op' = "do_fetch" =>
          /\ request_count' = request_count
          /\ \A i \in 1..Len(sleeps') : i > Len(sleeps) => sleeps'[i][1] # "delay"
    ]_vars

\* C5 witness: a second fetch_page call has slept the pacing delay
C5_Witness ==
  /\ op = "fetch_page"
  /\ request_count = 2
  /\ ~first_since
  /\ Len(sleeps) = 1 /\ sleeps[1][1] = "delay"

\* ------------------------------------------------------------------------
\* Properties of run_crawler (SpecCrawl, FairSpecCrawl)
\* ------------------------------------------------------------------------
\* the last catalog page fetched was fetched successfully and had zero items
EmptyPageSeen == cop.step = "page" /\ cop.outcome = "empty"

\* C6: no run fetches more catalog pages than the page limit, and a run in which
\* every catalog-page fetch succeeded with at least one item has stopped at the page
\* limit with pages_processed equal to the limit (1000) after fetching exactly the
\* pages 1..1000.
C6_TerminationBound ==
  /\ pages_fetched <= PageLimit
  /\ cpc = "page" => page <= PageLimit
  /\ (cpc = "done" /\ ~page_failed /\ ~EmptyPageSeen)
       => /\ pages_processed = PageLimit
          /\ pages_fetched = PageLimit
          /\ end_reason = "limit"

\* C6 witness: a run over an endless catalog with no failed page has ended at the limit
C6_Witness ==
  /\ cpc = "done"
  /\ ~page_failed /\ ~EmptyPageSeen
  /\ items_seen >= PageLimit
  /\ pages_processed = PageLimit

\* C7 (as amended): when catalog pages 1..m-1 were fetched successfully with at least
\* one item each and page m is fetched successfully with zero items, the run has
\* ended through the zero-items break and pages_processed is m-1: the empty page is
\* not counted.
C7_EndOfCatalog ==
  (EmptyPageSeen /\ ~page_failed)
    => /\ cpc = "done"
       /\ end_reason = "empty"
       /\ pages_processed = pages_fetched - 1

\* C7 witness: non-empty pages 1-2 and an empty page 3 ended with pages_processed = 2
C7_Witness ==
  /\ cpc = "done"
  /\ EmptyPageSeen /\ ~page_failed
  /\ pages_fetched = 3
  /\ pages_processed = 2
  /\ end_reason = "empty"

\* C7 as claimed: the run over non-empty pages 1..m-1 and an empty page m ends through
\* the zero-items break with pages_processed = m.
C7_Original ==
  (EmptyPageSeen /\ ~page_failed)
    => /\ cpc = "done"
       /\ end_reason = "empty"
       /\ pages_processed = pages_fetched

\* a finished run over a 3-page catalog (page 4 empty) whose only failure was the
\* detail fetch of one item of page 2
OneDetailFailureOnPage2 ==
  /\ cpc = "done"
  /\ EmptyPageSeen /\ ~page_failed
  /\ pages_fetched = 4
  /\ faults = 1
  /\ last_fault[1] = "fetch_detail"
  /\ last_fault[2] = 2

\* C8 (as amended): in a run over a 3-page catalog where the detail fetch of exactly
\* one item of page 2 fails and everything else succeeds, total_crawled counts every
\* item of the 3 pages, the failed one included, the error list has exactly one entry
\* and it names the failed item, and page 3 is processed.
C8_PartialFailure ==
  OneDetailFailureOnPage2
    => /\ total_crawled = items_seen
       /\ errors = << <<"fetch_detail", 2, last_fault[3], 0>> >>
       /\ pages_processed = 3

\* C8 witness: such a run with four items on the three pages, the failed one the
\* second item of page 2, has ended with total_crawled = 4
C8_Witness ==
  /\ OneDetailFailureOnPage2
  /\ last_fault[3] = 2
  /\ items_seen = 4
  /\ total_crawled = 4
  /\ Len(errors) = 1

\* C8 as claimed: the items counter counts all items of the 3 pages but the failed one.
C8_Original ==
  OneDetailFailureOnPage2
    => /\ total_crawled = items_seen - 1
       /\ errors = << <<"fetch_detail", 2, last_fault[3], 0>> >>
       /\ pages_processed = 3

C10_BoundedTermination ==
  /\ <>(cpc = "done")
  /\ [](pages_fetched <= PageLimit)
  /\ [](cpc = "done" =>
          \/ (end_reason = "empty" /\ EmptyPageSeen)
          \/ (end_reason = "limit" /\ page = PageLimit + 1 /\ pages_fetched = PageLimit))

\* C10 witness: a run in which every catalog-page fetch failed has ended at the limit
C10_Witness ==
  /\ cpc = "done"
  /\ end_reason = "limit"
  /\ page_failed
  /\ pages_processed = 0
  /\ Len(errors) = PageLimit

\* ------------------------------------------------------------------------
\* Properties of the cache layer (SpecCache)
\* ------------------------------------------------------------------------
\* this step is a call of is_cache_valid that the database answered
IsCacheValidStep ==
  /\ cache_call' # cache_call
  /\ cache_call'.op = "is_cache_valid"
  /\ cache_call'.ok

\* C15: is_fresh(key, max_age) is true iff an entry exists for key and
\* now - last_fetched < max_age: it is false for a key never refreshed or invalidated,
\* true for any max_age > 0 when no time has passed since mark_refreshed(key), and false
\* once the time since the last mark_refreshed(key) is >= max_age.
C15_Freshness ==
  [][IsCacheValidStep =>
       LET k == cache_call'.cache_key
           m == cache_call'.max_age_ms
           v == cache_call'.flag
       IN /\ v = (\E r \in cache_metadata : r.cache_key = k /\ now - r.last_fetched < m)
          /\ v = (refreshed_at[k] # Never /\ now - refreshed_at[k] < m)
          /\ (refreshed_at[k] = Never => v = FALSE)
          /\ (refreshed_at[k] = now /\ m > 0 => v = TRUE)
          /\ (refreshed_at[k] # Never /\ now - refreshed_at[k] >= m => v = FALSE)]_vars

\* is_cache_valid answered false exactly max_age_ms after the refresh
C15_Witness ==
  /\ cache_call.op = "is_cache_valid"
  /\ cache_call.cache_key = UPDATES
  /\ cache_call.max_age_ms \in {1, DEFAULT_CACHE_TTL_MS}
  /\ cache_call.ok
  /\ cache_call.flag = FALSE
  /\ refreshed_at[UPDATES] # Never
  /\ now - refreshed_at[UPDATES] = cache_call.max_age_ms

\* C16: after any interleaving of mark_refreshed, is_fresh and get_last_refreshed calls,
\* concurrent mark_refreshed calls for one key included, the cache holds at most one
\* entry per key and the last_fetched of a key never moves backward; is_fresh and
\* get_last_refreshed never create, change or delete an entry.
C16_CacheEntryInvariant ==
  /\ [](\A k \in CacheKeys : Cardinality(CacheRows(cache_metadata, k)) <= 1)
  /\ [][/\ cache_call'.op \in {"update_start", "update_cache_timestamp"} =>
             \A k \in CacheKeys :
               \A r \in CacheRows(cache_metadata, k), q \in CacheRows(cache_metadata', k) :
                 q.last_fetched >= r.last_fetched
        /\ cache_call'.op \in {"is_cache_valid", "get_cache_timestamp"} =>
             cache_metadata' = cache_metadata]_vars

\* ------------------------------------------------------------------------
\* Properties of table crawled_anime (SpecCatalog)
\* ------------------------------------------------------------------------
\* this step is the return of save_crawled_anime_batch for a non-empty list
BatchReturn ==
  /\ catalog_call'.op = "batch"
  /\ batch_tx.open \/ catalog_call # catalog_call'

\* C17: upsert_catalog_batch with one or more records is all-or-nothing: when it returns
\* success every record of the batch is stored (for a slug the batch names twice, its last
\* record), and when a write fails the store holds none of the batch's changes; with an
\* empty batch it returns success and changes nothing.
C17_BatchAtomicity ==
  [][/\ BatchReturn /\ catalog_call'.ok =>
          \A w \in batch_tx.writes : w \in crawled_anime'
     /\ BatchReturn /\ ~catalog_call'.ok => crawled_anime' = crawled_anime
     /\ catalog_call'.op = "batch_empty" =>
          catalog_call'.ok /\ crawled_anime' = crawled_anime]_vars

\* a batch failed at its second record, after its first record had changed a stored row
C17_Witness ==
  /\ catalog_call.op = "batch"
  /\ ~catalog_call.ok
  /\ batch_tx.n = 1
  /\ \E w \in batch_tx.writes : \E r \in crawled_anime : r.slug = w.slug /\ r.v # w.v

\* C18: after any sequence of catalog upserts the store holds exactly one row per slug
\* ever written, carrying the field values of the last applied upsert for that slug;
\* applying the same record twice leaves the row count unchanged.
C18_UpsertIdempotence ==
  /\ crawled_anime = {[slug |-> s, v |-> last_upsert[s]] : s \in {t \in Slugs : last_upsert[t] # 0}}
  /\ Cardinality(crawled_anime) = Cardinality({s \in Slugs : last_upsert[s] # 0})

\* a record was applied a second time, after another slug's row had been written with
\* two different values in turn
C18_Witness ==
  /\ catalog_call.op = "save_crawled_anime"
  /\ catalog_call.ok
  /\ catalog_call.repeated
  /\ Cardinality(crawled_anime) = 2
  /\ \E r \in crawled_anime : r.v = 2

\* ------------------------------------------------------------------------
\* Properties of the detail tables (SpecDetail)
\* ------------------------------------------------------------------------
\* C19: for every interleaving of upsert_detail_with_children(key, d) with a concurrent
\* read of the detail for key, the reader obtains the parent and children as the store
\* held them at some moment of the read (before the upsert or after it), never the
\* parent of one moment with the children of another.
C19_NoPartialVisibility ==
  detail_read.pc = "done" /\ detail_read.ok => detail_read.result \in views

\* ------------------------------------------------------------------------
\* Properties of table video_sources (SpecSources)
\* ------------------------------------------------------------------------
\* the last save_video_sources call has returned Ok(())
SavedSources == source_call.pc = "returned" /\ source_call.ok

\* C20: after replace_children_of(parent, A) followed by replace_children_of(parent, B),
\* both successful, the leaf records stored for parent are exactly the entries of B in
\* B's order (no entry of A that is absent from B remains), and the calls leave the leaf
\* records of other parents unchanged.
C20_FullReplacement ==
  /\ [](SavedSources =>
          get_video_sources(video_sources, source_call.episode_url) = source_call.sources)
  /\ [][\A p \in SourceParents \ {source_call'.episode_url} :
          get_video_sources(video_sources', p) = get_video_sources(video_sources, p)]_vars

\* a call replaced the sources of the episode by a list that lacks one of them, in a
\* store that holds sources of the other episode
C20_Witness ==
  /\ SavedSources
  /\ source_call.episode_url = "episode"
  /\ source_call.dropped
  /\ source_call.sources # <<>>
  /\ get_video_sources(video_sources, "other") # <<>>

\* ------------------------------------------------------------------------
\* Properties of the single-key path (SpecLookup)
\* ------------------------------------------------------------------------
\* the call in progress has returned
LookupReturned == lookup.pc = "returned"
\* the detail the store holds for the slug of the call
LookupStored == StoredDetail(anime_details, episodes_table, lookup.slug)
\* the store holds the parsed detail of the call: its title and each of its episodes
LookupPersisted ==
  /\ LookupStored.title = lookup.parsed.title
  /\ \A i \in 1..Len(lookup.parsed.episodes) :
       \E j \in 1..Len(LookupStored.episodes) :
         LookupStored.episodes[j] = lookup.parsed.episodes[i]
\* the key of the call is fresh under the default TTL
LookupFresh ==
  is_cache_valid(cache_metadata, anime_detail(lookup.slug), DEFAULT_CACHE_TTL_MS, now)
\* is_cache_valid answered Ok(false), or Ok(true) and the store held no detail
StaleOrDrifted == lookup.fresh = "false" \/ (lookup.fresh = "true" /\ lookup.read = "none")
\* the live fetch of the call succeeded and the parser found a title
LiveNonEmpty == lookup.live = "ok" /\ lookup.parsed.title # EmptyTitle

\* C11: when is_fresh(key, ttl) is true, fetch_or_refresh reads the store; a stored
\* value is returned without a live fetch; when the store holds nothing for the key the
\* live fetch is made as for a stale key.
C11_FreshBranch ==
  /\ lookup.fresh = "true" /\ lookup.read = "some" =>
       /\ LookupReturned
       /\ lookup.resp = Response(200, LookupStored)
       /\ lookup.live = "none" /\ lookup.saved = "none" /\ lookup.marked = "none"
  /\ lookup.fresh = "true" /\ lookup.read = "none" =>
       /\ lookup.saves
       /\ LookupStored = NoDetail \/ lookup.saved = "ok"
       /\ LookupReturned => lookup.live # "none"

\* a fresh key whose detail the store does not hold was fetched live and answered
C11_Witness ==
  /\ LookupReturned
  /\ lookup.fresh = "true"
  /\ lookup.read = "none"
  /\ lookup.live = "ok"
  /\ lookup.resp.status = 200

\* C12 as stated: when the key is stale or drifted and the live fetch succeeds with a
\* non-empty parsed result, fetch_or_refresh persists the result, calls mark_refreshed,
\* so that is_fresh(key, ttl) is true immediately afterwards, and returns the
\* just-fetched value.
C12_Original ==
  LookupReturned /\ StaleOrDrifted /\ LiveNonEmpty =>
    /\ LookupPersisted
    /\ now = lookup.at => LookupFresh
    /\ lookup.resp = Response(200, lookup.parsed)

\* C12: when the key is stale or drifted and the live fetch succeeds with a non-empty
\* parsed result, fetch_or_refresh calls the persist step and then mark_refreshed(key),
\* whatever the persist step answered, and returns the just-fetched value, never the
\* stored copy; the store holds the result when the persist step succeeded, and
\* is_fresh(key, ttl) is true immediately afterwards when mark_refreshed succeeded.
C12_StaleBranch ==
  /\ lookup.pc \in {"mark", "returned"} /\ lookup.saved = "none" => lookup.marked = "none"
  /\ LookupReturned /\ StaleOrDrifted /\ LiveNonEmpty =>
       /\ lookup.saved # "none"
       /\ lookup.marked # "none"
       /\ lookup.saved = "ok" => LookupPersisted
       /\ lookup.marked = "ok" /\ now = lookup.at => LookupFresh
       /\ lookup.resp = Response(200, lookup.parsed)

\* a stale key was refreshed: the store now holds an episode that the fetched detail
\* lacks, and the fetched detail was returned
C12_Witness ==
  /\ LookupReturned
  /\ lookup.fresh = "false"
  /\ lookup.saved = "ok"
  /\ lookup.marked = "ok"
  /\ LookupStored # lookup.parsed
  /\ now = lookup.at
  /\ now > 0

\* C13: when the live fetch succeeds but the parsed record has an empty title,
\* fetch_or_refresh returns NotFound, nothing is persisted and mark_refreshed is not
\* called: the store and the freshness cache stay as they were.
C13_NotFound ==
  [][lookup'.live = "ok" /\ lookup'.parsed.title = EmptyTitle =>
       /\ lookup'.pc = "returned"
       /\ lookup'.resp = Response(404, NoDetail)
       /\ lookup'.saved = "none" /\ lookup'.marked = "none"
       /\ anime_details' = anime_details
       /\ episodes_table' = episodes_table
       /\ cache_metadata' = cache_metadata]_vars

\* a stale key with a stored detail was answered NotFound
C13_Witness ==
  /\ LookupReturned
  /\ lookup.fresh = "false"
  /\ lookup.live = "ok"
  /\ lookup.parsed.title = EmptyTitle
  /\ lookup.resp.status = 404
  /\ LookupStored # NoDetail
  /\ refreshed_at[anime_detail(lookup.slug)] # Never

\* C14: when the key is not fresh (or is fresh without a stored value) and the live
\* fetch fails, fetch_or_refresh returns a failure, never a stored value, and leaves the
\* store and the freshness cache as they were.
C14_FetchFailure ==
  [][lookup'.live = "err" =>
       /\ lookup'.pc = "returned"
       /\ lookup'.resp = Response(500, NoDetail)
       /\ lookup'.saved = "none" /\ lookup'.marked = "none"
       /\ anime_details' = anime_details
       /\ episodes_table' = episodes_table
       /\ cache_metadata' = cache_metadata]_vars

\* the live fetch for a stale key failed while the store held a detail for it
C14_Witness ==
  /\ LookupReturned
  /\ lookup.fresh = "false"
  /\ lookup.live = "err"
  /\ lookup.resp.status = 500
  /\ LookupStored # NoDetail
  /\ refreshed_at[anime_detail(lookup.slug)] # Never

\* C21: replace_children_of(parent, L) takes effect as one unit: whenever a reader
\* reads the leaf records of parent during the call or after it, it finds exactly the
\* list stored before the call or exactly L, also when an insert fails partway.
C21_OneUnit ==
  sources_read.taken /\ sources_read.episode_url = source_call.episode_url =>
    sources_read.rows = sources_before \/ sources_read.rows = source_call.sources

\* C22: every request sent carries client-hint headers that match its user agent: a
\* Chrome-family user agent (Chrome, Edge) carries Sec-Ch-Ua headers naming its own
\* platform, and a Firefox or Safari user agent carries no Sec-Ch-Ua headers.
C22_IdentityConsistency ==
  \A i \in 1..Len(requests_sent) :
    LET r == requests_sent[i]
        user_agent == USER_AGENTS[r.user_agent]
    IN IF user_agent.browser \in {"Chrome", "Edge"}
         THEN r.has_sec_ch_ua /\ r.sec_ch_ua.platform = user_agent.platform
         ELSE ~r.has_sec_ch_ua

\* the batch save of the page in work has failed
BatchFailed == cpc \in {"item", "episode"} /\ written.catalog = {}

\* the step of run_crawler in which the batch save of a page fails
BatchFailureStep ==
  cpc = "page" /\ cop'.step = "page" /\ cop'.outcome = "save_failed"

\* what C23 says of a failed batch save but for the move to the next page: the effect
\* of the step, and that the run does not stay on the page for ever
BatchFailureEffect ==
  /\ [][BatchFailureStep =>
          /\ written'.catalog = {}
          /\ errors' = Append(errors, <<"save_batch", page, 0, 0>>)
          /\ total_crawled' = total_crawled
          /\ cpc' = "item" /\ page' = page /\ item' = 1 /\ anime_list' > 0]_vars
  /\ BatchFailed ~> ~BatchFailed

\* C23 as stated: when the catalog batch upsert of page n fails, none of the page's
\* catalog records is stored, exactly one error is appended, the items counter keeps
\* its value, and the run goes through the items of the page one by one, from the
\* first to the last, and then works on page n+1.
C23_Original ==
  /\ BatchFailureEffect
  /\ [][BatchFailed /\ item' # item =>
          \/ item' = item + 1 /\ page' = page /\ cpc' = "item"
          \/ item = anime_list /\ page' = page + 1 /\ cpc' = "page"]_vars

\* C23: when the catalog batch upsert of page n fails, none of the page's catalog
\* records is stored, exactly one error is appended, the items counter keeps its
\* value, and the run goes through the items of the page one by one, from the first to
\* the last, and then works on page n+1, or ends when n is the page limit.
C23_BatchFailure ==
  /\ BatchFailureEffect
  /\ [][BatchFailed /\ item' # item =>
          \/ item' = item + 1 /\ page' = page /\ cpc' = "item"
          \/ /\ item = anime_list /\ page' = page + 1
             /\ cpc' = IF page = PageLimit THEN "done" ELSE "page"]_vars

\* the batch save of page 1 has failed, its items were worked on and the run is at page 2
C23_Witness ==
  /\ cpc = "page" /\ page = 2
  /\ errors = << <<"save_batch", 1, 0, 0>> >>
  /\ total_crawled = 0
  /\ items_seen = MaxItems
  /\ written.catalog = {}

\* both calls have returned, each after it found the key not fresh, fetched a detail
\* with a title and made its save and its cache update
BothRefreshed ==
  /\ lookup.pc = "returned" /\ suspended.pc = "returned"
  /\ lookup.slug = suspended.slug
  /\ lookup.fresh = "false" /\ suspended.fresh = "false"
  /\ LiveNonEmpty
  /\ suspended.live = "ok" /\ suspended.parsed.title # EmptyTitle

\* the rows of anime_details for the slug of the calls
LookupRows == {r \in anime_details : r.slug = lookup.slug}

\* C24 as stated: two concurrent callers for the same stale key can both find the key
\* not fresh and both fetch and persist; after both have finished the store holds
\* exactly one record for the key, equal to the value written by one of the two, and
\* the key is fresh.
C24_Original ==
  BothRefreshed =>
    /\ lookup.saved # "none" /\ suspended.saved # "none"
    /\ Cardinality(LookupRows) = 1
    /\ LookupStored \in {lookup.parsed, suspended.parsed}
    /\ now \in {lookup.at, suspended.at} => LookupFresh

\* C24: two concurrent callers for the same stale key can both find the key not fresh
\* and both fetch, save and update the cache entry; after both have finished, if a
\* save succeeded, the store holds exactly one detail row for the key, with the title
\* of the save that succeeded last, and the episodes of that save are among the stored
\* episodes; the key is fresh at the return of a caller whose cache update succeeded.
C24_NoLock ==
  BothRefreshed =>
    /\ lookup.saved # "none" /\ suspended.saved # "none"
    /\ lookup.marked # "none" /\ suspended.marked # "none"
    /\ lookup.saved = "ok" \/ suspended.saved = "ok" =>
         /\ Cardinality(LookupRows) = 1
         /\ last_saved \in {c.parsed : c \in {c \in {lookup, suspended} : c.saved = "ok"}}
         /\ LookupStored.title = last_saved.title
         /\ \A i \in 1..Len(last_saved.episodes) :
              \E j \in 1..Len(LookupStored.episodes) :
                LookupStored.episodes[j] = last_saved.episodes[i]
    /\ \A c \in {lookup, suspended} : c.marked = "ok" /\ now = c.at => LookupFresh

\* both callers found the key not fresh before either had updated the cache entry,
\* both saved details with different titles, and the store holds the title saved last
\* with an episode that only the other caller saved
C24_Witness ==
  /\ BothRefreshed
  /\ ticks = 0
  /\ lookup.saved = "ok" /\ suspended.saved = "ok"
  /\ lookup.marked = "ok" /\ suspended.marked = "ok"
  /\ lookup.parsed.title # suspended.parsed.title
  /\ LookupStored.title = last_saved.title
  /\ LookupStored \notin {lookup.parsed, suspended.parsed}
  /\ LookupFresh

\* C25: a failed persist step does not stop the refresh: after a live fetch with a
\* non-empty parsed result and a failed save, the cache update is still called and the
\* caller gets the fetched detail with status 200; the key is fresh at the return when
\* the cache update succeeded.
C25_PersistFailure ==
  /\ lookup.saved = "err" =>
       /\ LiveNonEmpty
       /\ lookup.pc \in {"mark", "returned"}
  /\ LookupReturned /\ lookup.saved = "err" =>
       /\ lookup.marked # "none"
       /\ lookup.resp = Response(200, lookup.parsed)
       /\ lookup.marked = "ok" /\ now = lookup.at => LookupFresh

\* the key is fresh while the store holds no detail for it: the save of the call failed
\* and its cache update succeeded
C25_Witness ==
  /\ LookupReturned
  /\ lookup.saved = "err"
  /\ lookup.marked = "ok"
  /\ lookup.resp = Response(200, lookup.parsed)
  /\ LookupFresh
  /\ LookupStored = NoDetail

\* the step of run_crawler in which the save of a fetched and parsed detail fails
DetailSaveFailureStep ==
  cpc = "item" /\ cop'.step = "item" /\ cop'.outcome = "save_failed"

\* the episode loop works on an item whose detail was not stored
OrphanEpisodes == cpc = "episode" /\ ~written.detail

\* C26: when the detail of an item is fetched and parsed but its save with the
\* episodes fails, the run appends exactly one error and leaves the episodes counter as
\* it is, yet it fetches the page of every episode of the item, one after the other,
\* and saves the video sources found.
C26_DetailSaveFailure ==
  /\ [][DetailSaveFailureStep =>
          /\ errors' = Append(errors, <<"save_detail", page, item, 0>>)
          /\ total_episodes' = total_episodes
          /\ ~written'.detail
          /\ episodes' = episodes_seen' - episodes_seen
          /\ episodes' > 0 =>
               cpc' = "episode" /\ episode' = 1 /\ page' = page /\ item' = item]_vars
  /\ [][OrphanEpisodes =>
          /\ cop'.step = "episode"
          /\ total_episodes' = total_episodes
          /\ IF episode < episodes
               THEN cpc' = "episode" /\ episode' = episode + 1 /\ ~written'.detail
               ELSE cpc' # "episode"
          /\ cop'.outcome = "ok" =>
               /\ episode \in written'.sources
               /\ total_video_sources' > total_video_sources]_vars

\* video sources are stored for an episode of an item whose detail was not stored
C26_Witness ==
  /\ OrphanEpisodes
  /\ written.sources # {}
  /\ total_video_sources > 0
  /\ total_episodes = 0
  /\ errors = << <<"save_detail", page, item, 0>> >>

\* the step of run_crawler in which a detail page is fetched and parses to an empty
\* title
EmptyTitleStep ==
  cpc = "item" /\ cop'.step = "item" /\ cop'.outcome = "empty_title"

\* C27: an item whose detail page is fetched but parses to an empty title is skipped
\* silently: no detail and no video source is stored for it, none of its episode pages
\* is fetched (the run goes on with the next item or the next page), no counter changes
\* and no error is appended.
C27_EmptyTitleSkipped ==
  [][EmptyTitleStep =>
       /\ errors' = errors
       /\ ~written'.detail /\ written'.sources = {}
       /\ written'.catalog = written.catalog
       /\ cpc' # "episode" /\ episodes' = 0 /\ episode' = 0
       /\ IF item < anime_list
            THEN cpc' = "item" /\ item' = item + 1 /\ page' = page
            ELSE page' = page + 1
       /\ total_crawled' = total_crawled
       /\ total_episodes' = total_episodes
       /\ total_video_sources' = total_video_sources
       /\ pages_processed' = pages_processed]_vars

\* the first item of a saved page had an empty title and the run is at the second item
C27_Witness ==
  /\ cop = [step |-> "item", outcome |-> "empty_title"]
  /\ cpc = "item" /\ item = 2
  /\ errors = <<>>
  /\ total_crawled = anime_list
  /\ total_episodes = 0
  /\ ~written.detail

\* C28: with max_retries = 0, a fetch_page call makes no transport call and returns
\* NetworkError("Max retries exceeded"), and the request counter is raised by one.
C28_ZeroRetries ==
  /\ [](config.max_retries = 0 => transport_log = <<>> /\ op # "do_fetch")
  /\ [][config.max_retries = 0 /\ op' = "fetch_page" =>
          /\ fpc' = "returned"
          /\ result' = Err(NetworkError("Max retries exceeded"))
          /\ attempt_result' = NoResult
          /\ request_count' = request_count + 1]_vars

\* two fetch_page calls of a Scraper with max_retries = 0 have returned the error
C28_Witness ==
  /\ config.max_retries = 0
  /\ op = "fetch_page"
  /\ fpc = "returned"
  /\ result = Err(NetworkError("Max retries exceeded"))
  /\ transport_log = <<>>
  /\ request_count = 2

\* the backoff delays the fetch_page call has slept, in order
Backoffs == SelectSeq(sleeps, LAMBDA s : s[1] = "backoff")

\* `self.config.backoff_base_ms * 2u64.pow(attempt)`: the delay of apply_backoff
\* without its jitter
BackoffFloor(cfg, n) == cfg.backoff_base_ms * (2^n)

\* C30: pacing and counting happen once per fetch_page call, not once per attempt: an
\* attempt leaves the request counter as it is; the call has slept the pacing delay at
\* most once, before its first attempt, no backoff before attempt 1 and one backoff
\* before each later attempt; each backoff is at least twice backoff_base_ms and at
\* least twice the lower bound of the one before.
C30_OncePerFetch ==
  /\ [](/\ \A i \in 2..Len(sleeps) : sleeps[i][1] = "backoff"
        /\ Len(Backoffs) = IF Calls = 0 THEN 0 ELSE Calls - 1
        /\ \A j \in 1..Len(Backoffs) :
             /\ Backoffs[j][2] >= 2 * config.backoff_base_ms
             /\ Backoffs[j][2] >= BackoffFloor(config, j)
             /\ j > 1 => Backoffs[j][2] >= 2 * BackoffFloor(config, j - 1))
  /\ [][op' = "do_fetch" =>
          /\ request_count' = request_count
          /\ Len(sleeps') <= Len(sleeps) + 1
          /\ Calls = 0 => sleeps' = sleeps
          /\ Calls > 0 => Len(sleeps') = Len(sleeps) + 1]_vars

\* the second fetch_page call of a Scraper needed 2 retries: it has slept the pacing
\* delay and two backoffs and the counter stands at 2
C30_Witness ==
  /\ request_count = 2
  /\ Calls = 3
  /\ fpc = "returned" /\ result.ok
  /\ Len(sleeps) = 3
  /\ sleeps[1][1] = "delay"
  /\ Len(Backoffs) = 2
  /\ Backoffs[2][2] >= 4 * config.backoff_base_ms

\* the clients whose reset_password request was answered with 200
Succeeded == {r \in Resetters : resets[r].pc = "done" /\ resets[r].status = 200}

\* C29: a password-reset token authorises at most one successful password reset: of
\* the reset_password requests made with the token, at most one is answered with 200.
C29_SingleUse == Cardinality(Succeeded) <= 1

====
